---- MODULE Spec2Model ----
(***************************************************************************)
(* BudgetGuard TechOps: the selection state manager of the deployment tab, *)
(* the deployment orchestrator (execute_deployments) with its endpoint     *)
(* store, and the provider deployers (AWS ECS, Azure AKS, GCP GKE, local   *)
(* Docker).                                                                *)
(*                                                                         *)
(* Three specifications share the module's variables:                      *)
(*   Spec        the deployment tab and DeploymentStateManager             *)
(*   SpecExec    execute_deployments and the endpoint store                *)
(*   SpecDeploy  deploy_nim_instance of the provider deployers against the *)
(*               provider's resources                                      *)
(* Each one holds the other two groups of variables at their initial       *)
(* values.                                                                 *)
(***************************************************************************)
EXTENDS Integers, Sequences, FiniteSets, TLC

(***************************************************************************)
(* Bounds of the model.                                                    *)
(***************************************************************************)
\* how many of the eight nim_nodes the table shows
NumNodes == 2
\* how many of the four provider columns the table shows
NumProviders == 2
\* how many user events (clicks) one behaviour of the tab contains
MaxEvents == 4

(***************************************************************************)
(* Program constants of the deployment tab.                                *)
(***************************************************************************)
\* deployment_tab.py:97-106
AllNimNodes ==
  <<"FLUX Dev", "FLUX Canny", "FLUX Depth", "FLUX Kontext",
    "SDXL", "Llama 3", "Mixtral", "Phi-3">>
nim_nodes == SubSeq(AllNimNodes, 1, NumNodes)

\* deployment_tab.py:108, keyed by provider.lower() at deployment_tab.py:222.
\* "local" is not a column of the table.
AllProviders == <<"aws", "azure", "gcp", "nvidia-hosted">>
providers == SubSeq(AllProviders, 1, NumProviders)

\* the values of the three GPU tier radio buttons, deployment_tab.py:62-81
gpu_tiers == <<"t4", "a10g", "a100">>
\* gpu_tier_var = tk.StringVar(value="a10g")
DefaultTier == "a10g"
\* Python's None (current_gpu_tier before it is set; the tier of a
\* local-only task)
None == "None"

Range(s) == {s[i] : i \in DOMAIN s}
Nodes == Range(nim_nodes)
Providers == Range(providers)
Tiers == Range(gpu_tiers)

(***************************************************************************)
(* Dictionaries are functions with a finite domain of keys.                *)
(***************************************************************************)
EmptyDict == [k \in {} |-> FALSE]
Put(d, k, v) == [x \in (DOMAIN d) \cup {k} |-> IF x = k THEN v ELSE d[x]]
GetOr(d, k, default) == IF k \in DOMAIN d THEN d[k] ELSE default

VARIABLES
  \* DeploymentStateManager
  deployment_state,       \* {gpu_tier: {node: {provider: bool}}}
  local_only_state,       \* {node: bool}
  current_gpu_tier,
  \* create_deployment_tab closure
  tab_created,            \* create_deployment_tab has run
  gpu_tier_var,           \* the radio button variable
  visible_gpu_tier,
  deploy_local_only,      \* the "Create Local Install Package Only" variable
  deployment_checkboxes,  \* {node: {provider: BooleanVar value}}
  local_only_checkboxes,  \* {node: BooleanVar value}
  selected_count,         \* the count shown by selected_count_label
  deployment_tasks,       \* the task list built by the last deploy_selected
  \* history of the model
  last_event,             \* the last user event handled
  left_checkboxes,        \* per tier: the visible checkboxes when it was left
  events,                 \* number of user events so far
  left_mode,              \* per mode: the dictionaries when the mode was left
  \* execute_deployments (one run, in its background thread)
  exec_tasks,             \* the deployment_tasks argument
  exec_i,                 \* index of the next task of the for loop
  results,                \* the success list
  errors,                 \* the error list
  endpoints_file,         \* the endpoint store, ConfigManager.endpoints_file
  ui_updated,             \* update_ui has run
  refresh_calls,          \* calls of refresh_endpoints_callback
  credentials,            \* the providers the credential store answers for
  \* history of the model
  store_before,           \* the endpoint store when the run started
  deployer_outcome,       \* per task index: what its deployer did
  \* two calls of <Provider>Deployer.deploy_nim_instance and the provider
  dep_provider,           \* the provider both calls deploy to
  scale_to_zero,          \* the scale_to_zero argument
  instance_name,          \* per call: the instance_name
  cloud_clusters,         \* the provider's clusters of the deployer's name
  workloads,              \* the provider's services/deployments: replicas
  pc,                     \* per call: the step it is at
  retry_count,            \* per call: _get_endpoint_url's counter
  deployment_info,        \* per call: the record returned, or None
  auto_scaling_group,     \* AWS: the Auto Scaling Group of the cluster exists
  \* history of the model
  lookup_result,          \* per call: what the cluster lookup observed
  after_other,            \* per call: it looked up after the other's cluster step
  create_calls,           \* per call: create-cluster calls issued
  attempts,               \* per call: endpoint resolution attempts made
  resolution,             \* per call: how endpoint resolution ended
  failure,                \* per call: why it raised
  steps_done,             \* per call: the steps it has completed, in order
  after_partial,          \* per call: it looked up after the other call had
                          \* created the cluster and failed at the next step
  \* one deployer object and the instances of its provider account
  life_provider,          \* the provider of the deployer
  k8s_client,             \* AKS/GKE: self.k8s_apps_api is set (not None)
  life_workloads,         \* service/deployment/container name -> replicas
  life_services,          \* AKS/GKE: the names that have a Kubernetes Service
  docker_compose,         \* local: services of docker-compose.yml,
                          \* name -> port mapping <<host port, container port>>
  \* history of the model
  last_op,                \* the last lifecycle call: arguments and result
  life_deleted,           \* the names a delete_deployment has removed
  \* two runs of execute_deployments, each in the thread of its press of
  \* Deploy, and the endpoint store they share
  run_pc,                 \* per run: where its thread is
  run_tasks,              \* per run: the number of tasks of its batch
  run_i,                  \* per run: the index of the task it is at
  run_results,            \* per run: its success list
  run_errors,             \* per run: the number of its error entries
  existing_endpoints,     \* per run: what its last load_endpoints returned
  endpoints_json,         \* the endpoint store (endpoints.json)
  save_raised,            \* history: a save_endpoints of a run has raised
  \* one call of GCPDeployer._wait_for_operation and the operation it polls
  wait_pc,                \* where the call is
  elapsed,                \* time.time() - start_time, in seconds
  operation,              \* the GKE operation: status and error
  polls,                  \* history: the calls of get_operation so far
  observed                \* history: what the last call of get_operation gave

selVars ==
  <<deployment_state, local_only_state, current_gpu_tier, tab_created,
    gpu_tier_var, visible_gpu_tier, deploy_local_only, deployment_checkboxes,
    local_only_checkboxes, selected_count, deployment_tasks, last_event,
    left_checkboxes, events, left_mode>>

execVars ==
  <<exec_tasks, exec_i, results, errors, endpoints_file, ui_updated,
    refresh_calls, store_before, deployer_outcome, credentials>>

depVars ==
  <<dep_provider, scale_to_zero, instance_name, cloud_clusters, workloads, pc,
    retry_count, deployment_info, lookup_result, after_other, create_calls,
    attempts, resolution, failure, auto_scaling_group, steps_done,
    after_partial>>

lifeVars ==
  <<life_provider, k8s_client, life_workloads, life_services,
    docker_compose, last_op, life_deleted>>

runVars ==
  <<run_pc, run_tasks, run_i, run_results, run_errors, existing_endpoints,
    endpoints_json, save_raised>>

waitVars == <<wait_pc, elapsed, operation, polls, observed>>

vars == <<selVars, execVars, depVars, lifeVars, runVars, waitVars>>

\* no run of execute_deployments has been started
EmptyStore == [kind |-> "missing", items |-> <<>>]
ExecIdle ==
  /\ exec_tasks = <<>>
  /\ exec_i = 1
  /\ results = <<>>
  /\ errors = <<>>
  /\ endpoints_file = EmptyStore
  /\ ui_updated = FALSE
  /\ refresh_calls = 0
  /\ store_before = EmptyStore
  /\ deployer_outcome = <<>>
  /\ credentials = {}

\* no lifecycle call has been made
NoOp ==
  [op |-> "none", name |-> None, response |-> "answered", result |-> None,
   desired |-> 0, existed |-> FALSE, before |-> 0, endpoint |-> 0]
LifeIdle ==
  /\ life_provider = "local"
  /\ k8s_client = FALSE
  /\ life_workloads = EmptyDict
  /\ life_services = {}
  /\ docker_compose = EmptyDict
  /\ last_op = NoOp
  /\ life_deleted = {}

\* Deploy has not been pressed
Runs == {1, 2}
RunIdle ==
  /\ run_pc = [r \in Runs |-> "idle"]
  /\ run_tasks = [r \in Runs |-> 0]
  /\ run_i = [r \in Runs |-> 1]
  /\ run_results = [r \in Runs |-> <<>>]
  /\ run_errors = [r \in Runs |-> 0]
  /\ existing_endpoints = [r \in Runs |-> <<>>]
  /\ endpoints_json = EmptyStore
  /\ save_raised = FALSE

\* _wait_for_operation has not been called
Running == [status |-> "RUNNING", error |-> FALSE]
WaitIdle ==
  /\ wait_pc = "idle"
  /\ elapsed = 0
  /\ operation = Running
  /\ polls = 0
  /\ observed = "none"

\* no deployer is at work
Deployments == {1, 2}
DepIdle ==
  /\ dep_provider = "local"
  /\ scale_to_zero = TRUE
  /\ instance_name = [d \in Deployments |-> None]
  /\ cloud_clusters = <<>>
  /\ workloads = EmptyDict
  /\ pc = [d \in Deployments |-> "idle"]
  /\ retry_count = [d \in Deployments |-> 0]
  /\ deployment_info = [d \in Deployments |-> None]
  /\ lookup_result = [d \in Deployments |-> None]
  /\ after_other = [d \in Deployments |-> FALSE]
  /\ create_calls = [d \in Deployments |-> 0]
  /\ attempts = [d \in Deployments |-> 0]
  /\ resolution = [d \in Deployments |-> None]
  /\ failure = [d \in Deployments |-> None]
  /\ auto_scaling_group = FALSE
  /\ steps_done = [d \in Deployments |-> <<>>]
  /\ after_partial = [d \in Deployments |-> FALSE]

(***************************************************************************)
(* DeploymentStateManager (gui/tabs/deployment_state.py).  Its methods are *)
(* operators from the manager's dictionaries and the checkbox variables to *)
(* their new values.                                                       *)
(***************************************************************************)

\* on_checkbox_change: deployment_state[current_gpu_tier][node][provider] =
\* value, creating the missing levels.
on_checkbox_change(ds, cur, node, provider, value) ==
  LET tierState == GetOr(ds, cur, EmptyDict)
      nodeState == GetOr(tierState, node, EmptyDict)
  IN  Put(ds, cur, Put(tierState, node, Put(nodeState, provider, value)))

\* on_local_checkbox_change
on_local_checkbox_change(ls, node, value) == Put(ls, node, value)

\* save_state_for_gpu_tier that starts from an empty dictionary: the tier
\* saved is all that is kept
save_state_only_gpu_tier(ds, gpu_tier, cbs) ==
  [t \in {gpu_tier} |-> [n \in DOMAIN cbs |-> cbs[n]]]

\* save_state_for_gpu_tier that resets the tier's entry before it writes the
\* visible variables ("self.deployment_state[gpu_tier] = {}" unconditionally)
save_state_for_gpu_tier_reset(ds, gpu_tier, cbs) ==
  Put(ds, gpu_tier, [n \in DOMAIN cbs |-> cbs[n]])

\* save_state_for_gpu_tier: every visible variable is written under gpu_tier;
\* entries of nodes and providers that are not visible are kept.
save_state_for_gpu_tier(ds, gpu_tier, cbs) ==
  LET old == GetOr(ds, gpu_tier, EmptyDict)
      new == [n \in (DOMAIN old) \cup (DOMAIN cbs) |->
                IF n \in DOMAIN cbs
                  THEN LET oldn == GetOr(old, n, EmptyDict)
                       IN  [p \in (DOMAIN oldn) \cup (DOMAIN cbs[n]) |->
                              IF p \in DOMAIN cbs[n] THEN cbs[n][p] ELSE oldn[p]]
                  ELSE old[n]]
  IN  Put(ds, gpu_tier, new)

\* save_local_only_state
save_local_only_state(ls, lcbs) ==
  [n \in (DOMAIN ls) \cup (DOMAIN lcbs) |->
     IF n \in DOMAIN lcbs THEN lcbs[n] ELSE ls[n]]

\* restore_state_for_gpu_tier without the restore: the fresh table is left
\* as created.
RestoredCheckboxesFresh(ds, gpu_tier, cbs) ==
  [n \in DOMAIN cbs |-> [p \in DOMAIN cbs[n] |-> FALSE]]

\* The checkbox values restore_state_for_gpu_tier leaves: a variable is set to
\* the stored value when the tier, the node and the provider have one; when the
\* tier has no stored state at all every variable is set to False; otherwise
\* the variable keeps its value.
RestoredCheckboxes(ds, gpu_tier, cbs) ==
  IF gpu_tier \in DOMAIN ds
    THEN [n \in DOMAIN cbs |-> [p \in DOMAIN cbs[n] |->
            IF n \in DOMAIN ds[gpu_tier] /\ p \in DOMAIN ds[gpu_tier][n]
              THEN ds[gpu_tier][n][p]
              ELSE cbs[n][p]]]
    ELSE [n \in DOMAIN cbs |-> [p \in DOMAIN cbs[n] |-> FALSE]]

\* The (node, provider) variables restore_state_for_gpu_tier writes with
\* var.set: each write runs the variable's trace, on_checkbox_change, under
\* the manager's current tier (deployment_tab.py:216-217).
CheckboxKeys(cbs) == UNION {{<<n, p>> : p \in DOMAIN cbs[n]} : n \in DOMAIN cbs}
RestoreWrites(ds, gpu_tier, cbs) ==
  IF gpu_tier \in DOMAIN ds
    THEN {np \in CheckboxKeys(cbs) :
            /\ np[1] \in DOMAIN ds[gpu_tier]
            /\ np[2] \in DOMAIN ds[gpu_tier][np[1]]}
    ELSE CheckboxKeys(cbs)

\* deployment_state after the traces of those writes.  The values written are
\* the restored checkbox values, so the result does not depend on the order
\* of the writes.
TracedState(ds, cur, writes, cbs) ==
  LET touched == {np[1] : np \in writes}
      old == GetOr(ds, cur, EmptyDict)
      new == [n \in (DOMAIN old) \cup touched |->
                LET oldn == GetOr(old, n, EmptyDict)
                    ps == {np[2] : np \in {w \in writes : w[1] = n}}
                IN  [p \in (DOMAIN oldn) \cup ps |->
                       IF p \in ps THEN cbs[n][p] ELSE oldn[p]]]
  IN  IF writes = {} THEN ds ELSE Put(ds, cur, new)

\* restore_state_for_gpu_tier with the traces of the variables it sets:
\* the new checkbox values and the new deployment_state.
restore_state_for_gpu_tier(ds, cur, gpu_tier, cbs) ==
  LET cbs2 == RestoredCheckboxes(ds, gpu_tier, cbs)
  IN  [cbs |-> cbs2,
       ds  |-> TracedState(ds, cur, RestoreWrites(ds, gpu_tier, cbs), cbs2)]

\* restore_local_only_state with the traces (on_local_checkbox_change) of
\* the variables it sets.
restore_local_only_state(ls, lcbs) ==
  [lcbs |-> [n \in DOMAIN lcbs |-> IF n \in DOMAIN ls THEN ls[n] ELSE lcbs[n]],
   ls   |-> ls]

(***************************************************************************)
(* get_selected_deployments.  A task is <<node, provider, gpu_tier>>.  The *)
(* lists are built in the order the code iterates its dictionaries: nodes  *)
(* and providers in table order; the tiers of deployment_state in radio    *)
(* button order (the code iterates them in order of first use, which only  *)
(* permutes the list).                                                     *)
(***************************************************************************)
TierKeys == <<None>> \o gpu_tiers
ProviderKeys == providers \o <<"local">>

RECURSIVE FlattenSeq(_)
FlattenSeq(ss) == IF ss = <<>> THEN <<>> ELSE Head(ss) \o FlattenSeq(Tail(ss))

\* deployment_state.py:145-149, the tasks of the committed per-tier state
\* the tier key left out of the task
NodeTasksUntiered(ds, t, n) ==
  LET ps == SelectSeq(ProviderKeys,
                      LAMBDA p : p \in DOMAIN ds[t][n] /\ ds[t][n][p])
  IN  [i \in 1..Len(ps) |-> <<n, ps[i], None>>]
\* the loop without the test "if is_checked"
NodeTasksRecorded(ds, t, n) ==
  LET ps == SelectSeq(ProviderKeys, LAMBDA p : p \in DOMAIN ds[t][n])
  IN  [i \in 1..Len(ps) |-> <<n, ps[i], t>>]
NodeTasks(ds, t, n) ==
  LET ps == SelectSeq(ProviderKeys,
                      LAMBDA p : p \in DOMAIN ds[t][n] /\ ds[t][n][p])
  IN  [i \in 1..Len(ps) |-> <<n, ps[i], t>>]
TierTasks(ds, t) ==
  LET ns == SelectSeq(nim_nodes, LAMBDA n : n \in DOMAIN ds[t])
  IN  FlattenSeq([i \in 1..Len(ns) |-> NodeTasks(ds, t, ns[i])])
\* the committed state left out: only the visible table is collected
StateTasksNone(ds) == <<>>
StateTasks(ds) ==
  LET ts == SelectSeq(TierKeys, LAMBDA t : t \in DOMAIN ds)
  IN  FlattenSeq([i \in 1..Len(ts) |-> TierTasks(ds, ts[i])])

\* "if task_key not in deployment_tasks: deployment_tasks.append(task_key)"
\* for each key of a list in turn (deployment_state.py:161-163, 171-173)
AppendAll(tasks, keys) == tasks \o keys
RECURSIVE AppendNew(_, _)
AppendNew(tasks, keys) ==
  IF keys = <<>> THEN tasks
  ELSE AppendNew(IF Head(keys) \in Range(tasks) THEN tasks
                 ELSE Append(tasks, Head(keys)),
                 Tail(keys))

\* deployment_state.py:153-173 for one node of the visible table
VisibleNode(tasks, cbs, cur, n) ==
  LET node_checkboxes == cbs[n]
      checked == SelectSeq(ProviderKeys,
                   LAMBDA p : p \in DOMAIN node_checkboxes /\ node_checkboxes[p])
      t1 == AppendNew(tasks, [i \in 1..Len(checked) |-> <<n, checked[i], cur>>])
      has_cloud_deployment ==
        \E p \in DOMAIN node_checkboxes : node_checkboxes[p] /\ p # "local"
      \* local_var = node_checkboxes.get("local"); if local_var and not local_var.get()
      auto_local ==
        /\ has_cloud_deployment
        /\ "local" \in DOMAIN node_checkboxes
        /\ ~node_checkboxes["local"]
  IN  IF auto_local THEN AppendNew(t1, << <<n, "local", cur>> >>) ELSE t1

RECURSIVE VisibleTasks(_, _, _, _)
VisibleTasks(tasks, cbs, cur, ns) ==
  IF ns = <<>> THEN tasks
  ELSE VisibleTasks(VisibleNode(tasks, cbs, cur, Head(ns)), cbs, cur, Tail(ns))

\* deployment_state.py:140-142, also deployment_tab.py:348-351
\* the local-only loop without the test "var.get()": one task per checkbox
LocalOnlyTasksAll(lcbs) ==
  LET ns == SelectSeq(nim_nodes, LAMBDA n : n \in DOMAIN lcbs)
  IN  [i \in 1..Len(ns) |-> <<ns[i], "local", None>>]

LocalOnlyTasks(lcbs) ==
  LET ns == SelectSeq(nim_nodes, LAMBDA n : n \in DOMAIN lcbs /\ lcbs[n])
  IN  [i \in 1..Len(ns) |-> <<ns[i], "local", None>>]

get_selected_deployments(ds, cur, cbs, lcbs, is_local_only) ==
  IF is_local_only
    THEN LocalOnlyTasks(lcbs)
    ELSE VisibleTasks(StateTasks(ds), cbs, cur,
                      SelectSeq(nim_nodes, LAMBDA n : n \in DOMAIN cbs))

\* update_selected_count with a counter instead of the set all_checked: the
\* committed and the visible combinations are counted one by one
update_selected_count_sum(ds, cur, cbs, lcbs, is_local_only) ==
  IF is_local_only
    THEN Cardinality({n \in DOMAIN lcbs : lcbs[n]})
    ELSE Cardinality(
           {<<t, n, p>> \in (DOMAIN ds) \X Nodes \X Range(ProviderKeys) :
              /\ n \in DOMAIN ds[t] /\ p \in DOMAIN ds[t][n] /\ ds[t][n][p]})
         + Cardinality({k \in CheckboxKeys(cbs) : cbs[k[1]][k[2]]})

\* update_selected_count.  The keys "{gpu_tier}:{node}:{provider}" of the set
\* all_checked are one-to-one with the triples: no tier, node or provider name
\* contains a colon.
update_selected_count(ds, cur, cbs, lcbs, is_local_only) ==
  IF is_local_only
    THEN Cardinality({n \in DOMAIN lcbs : lcbs[n]})
    ELSE Cardinality(
           {<<t, n, p>> \in (DOMAIN ds) \X Nodes \X Range(ProviderKeys) :
              /\ n \in DOMAIN ds[t] /\ p \in DOMAIN ds[t][n] /\ ds[t][n][p]}
           \cup {<<cur, np[1], np[2]>> : np \in
                   {k \in CheckboxKeys(cbs) : cbs[k[1]][k[2]]}})

(***************************************************************************)
(* The deployment tab (gui/tabs/deployment_tab.py).                        *)
(***************************************************************************)

\* create_normal_table / create_local_only_table: fresh BooleanVars (False)
\* a table whose variables are created checked
NormalTableChecked == [n \in Nodes |-> [p \in Providers |-> TRUE]]
NormalTable == [n \in Nodes |-> [p \in Providers |-> FALSE]]
LocalOnlyTable == [n \in Nodes |-> FALSE]

\* create_deployment_table(save_under_gpu_tier): saves the visible variables,
\* rebuilds the table for the mode deploy_local_only now has, restores the
\* stored state into it.  The result is the new value of the dictionaries.
create_deployment_table(save_under_gpu_tier) ==
  LET is_local_only == deploy_local_only'
      have_boxes == deployment_checkboxes # EmptyDict \/ local_only_checkboxes # EmptyDict
      tier_to_save == IF save_under_gpu_tier # None THEN save_under_gpu_tier
                      ELSE visible_gpu_tier'
      ls1 == IF have_boxes /\ is_local_only
               THEN save_local_only_state(local_only_state, local_only_checkboxes)
               ELSE local_only_state
      ds1 == IF have_boxes /\ ~is_local_only
               THEN save_state_for_gpu_tier(deployment_state, tier_to_save,
                                            deployment_checkboxes)
               ELSE deployment_state
      rn == restore_state_for_gpu_tier(ds1, current_gpu_tier', visible_gpu_tier',
                                       NormalTable)
      rl == restore_local_only_state(ls1, LocalOnlyTable)
  IN  IF is_local_only
        THEN [ds |-> ds1, ls |-> rl.ls, cbs |-> EmptyDict, lcbs |-> rl.lcbs]
        ELSE [ds |-> rn.ds, ls |-> ls1, cbs |-> rn.cbs, lcbs |-> EmptyDict]

\* the handler's writes of the four dictionaries and of the count label
SetTable(t) ==
  /\ deployment_state' = t.ds
  /\ local_only_state' = t.ls
  /\ deployment_checkboxes' = t.cbs
  /\ local_only_checkboxes' = t.lcbs
  /\ selected_count' = update_selected_count(t.ds, current_gpu_tier', t.cbs,
                                             t.lcbs, deploy_local_only')

\* the variables the deployment tab leaves alone
selOthers == <<execVars, depVars, lifeVars, runVars, waitVars>>
\* the variables execute_deployments leaves alone
execOthers == <<selVars, depVars, lifeVars, runVars, waitVars>>

Event(name) ==
  /\ events < MaxEvents
  /\ events' = events + 1
  /\ last_event' = name

\* create_deployment_tab, deployment_tab.py:136-137 and 391-394
CreateDeploymentTab ==
  /\ UNCHANGED selOthers
  /\ ~tab_created
  /\ tab_created' = TRUE
  /\ current_gpu_tier' = gpu_tier_var
  /\ visible_gpu_tier' = gpu_tier_var
  /\ UNCHANGED <<gpu_tier_var, deploy_local_only>>
  /\ SetTable(create_deployment_table(None))
  /\ UNCHANGED <<deployment_tasks, last_event, left_checkboxes, events,
                 left_mode>>

\* A click on the checkbox of (node, provider): the variable is written and
\* its two write traces run.  Tcl runs the traces of a variable most recent
\* first: update_selected_count (added at deployment_tab.py:219) runs before
\* on_checkbox_change (added at 216) has recorded the new value.
ClickCheckbox(n, p) ==
  /\ UNCHANGED selOthers
  /\ tab_created /\ n \in DOMAIN deployment_checkboxes
  /\ Event("checkbox")
  /\ LET value == ~deployment_checkboxes[n][p]
         cbs == [deployment_checkboxes EXCEPT ![n][p] = value]
         ds == on_checkbox_change(deployment_state, current_gpu_tier, n, p, value)
     IN  /\ UNCHANGED <<current_gpu_tier, deploy_local_only, visible_gpu_tier,
                       local_only_state, local_only_checkboxes>>
         /\ selected_count' =
              update_selected_count(deployment_state, current_gpu_tier, cbs,
                                    local_only_checkboxes, deploy_local_only)
         /\ deployment_checkboxes' = cbs
         /\ deployment_state' = ds
  /\ UNCHANGED <<tab_created, gpu_tier_var, deployment_tasks, left_checkboxes,
                 left_mode>>

\* A click on the local-only checkbox of a node.
ClickLocalCheckbox(n) ==
  /\ UNCHANGED selOthers
  /\ tab_created /\ n \in DOMAIN local_only_checkboxes
  /\ Event("local_checkbox")
  /\ LET value == ~local_only_checkboxes[n]
     IN  /\ UNCHANGED <<current_gpu_tier, deploy_local_only, visible_gpu_tier>>
         /\ SetTable([ds |-> deployment_state,
                      ls |-> on_local_checkbox_change(local_only_state, n, value),
                      cbs |-> deployment_checkboxes,
                      lcbs |-> [local_only_checkboxes EXCEPT ![n] = value]])
  /\ UNCHANGED <<tab_created, gpu_tier_var, deployment_tasks, left_checkboxes,
                 left_mode>>

\* select_all_deployments / deselect_all_deployments: var.set(value) on every
\* visible variable, each with its traces.
SetAll(value) ==
  /\ UNCHANGED selOthers
  /\ tab_created
  /\ Event(IF value THEN "select_all" ELSE "deselect_all")
  /\ UNCHANGED <<current_gpu_tier, deploy_local_only, visible_gpu_tier>>
  /\ IF deploy_local_only
       THEN LET lcbs == [n \in DOMAIN local_only_checkboxes |-> value]
            IN  SetTable([ds |-> deployment_state,
                          ls |-> save_local_only_state(local_only_state, lcbs),
                          cbs |-> deployment_checkboxes, lcbs |-> lcbs])
       ELSE LET cbs == [n \in DOMAIN deployment_checkboxes |->
                         [q \in DOMAIN deployment_checkboxes[n] |-> value]]
            IN  SetTable([ds |-> TracedState(deployment_state, current_gpu_tier,
                                             CheckboxKeys(cbs), cbs),
                          ls |-> local_only_state, cbs |-> cbs,
                          lcbs |-> local_only_checkboxes])
  /\ UNCHANGED <<tab_created, gpu_tier_var, deployment_tasks, left_checkboxes,
                 left_mode>>

\* A click on a GPU tier radio button (shown in normal mode only): the write
\* of gpu_tier_var runs on_gpu_tier_changed.
ChangeTier(new_gpu_tier) ==
  /\ UNCHANGED selOthers
  /\ tab_created /\ ~deploy_local_only
  /\ gpu_tier_var' = new_gpu_tier
  /\ UNCHANGED <<tab_created, deploy_local_only, deployment_tasks, left_mode>>
  /\ IF visible_gpu_tier # new_gpu_tier /\ deployment_checkboxes # EmptyDict
       THEN /\ Event("tier")
            /\ visible_gpu_tier' = new_gpu_tier
            /\ current_gpu_tier' = new_gpu_tier
            /\ left_checkboxes' =
                 Put(left_checkboxes, visible_gpu_tier, deployment_checkboxes)
            /\ SetTable(create_deployment_table(visible_gpu_tier))
       ELSE /\ Event("same_tier")
            /\ UNCHANGED <<visible_gpu_tier, current_gpu_tier, left_checkboxes,
                           deployment_state, local_only_state,
                           deployment_checkboxes, local_only_checkboxes,
                           selected_count>>

\* A click on "Create Local Install Package Only": the variable flips, then
\* toggle_local_only_mode rebuilds the table.
ToggleLocalOnly ==
  /\ UNCHANGED selOthers
  /\ tab_created
  /\ Event("mode")
  /\ deploy_local_only' = ~deploy_local_only
  /\ UNCHANGED <<current_gpu_tier, visible_gpu_tier>>
  /\ SetTable(create_deployment_table(None))
  /\ left_mode' =
       Put(left_mode, IF deploy_local_only THEN "local_only" ELSE "normal",
           [ds |-> deployment_state, cbs |-> deployment_checkboxes,
            ls |-> local_only_state, lcbs |-> local_only_checkboxes])
  /\ UNCHANGED <<tab_created, gpu_tier_var, deployment_tasks, left_checkboxes>>

\* deploy_selected up to the start of the background thread: the task list
\* is collected; an empty list or a declined confirmation returns.
DeploySelected ==
  /\ UNCHANGED selOthers
  /\ tab_created
  /\ LET tasks == IF deploy_local_only
                    THEN LocalOnlyTasks(local_only_checkboxes)
                    ELSE get_selected_deployments(deployment_state,
                           current_gpu_tier, deployment_checkboxes,
                           local_only_checkboxes, FALSE)
     IN  /\ tasks # <<>>
         /\ deployment_tasks' = tasks
  /\ Event("deploy")
  /\ UNCHANGED <<deployment_state, local_only_state, current_gpu_tier,
                 tab_created, gpu_tier_var, visible_gpu_tier, deploy_local_only,
                 deployment_checkboxes, local_only_checkboxes, selected_count,
                 left_checkboxes, left_mode>>

\* The state after DeploymentStateManager() and the creation of the tab's
\* variables, before create_deployment_tab builds the table.
SelInit ==
  /\ deployment_state = EmptyDict
  /\ local_only_state = EmptyDict
  /\ current_gpu_tier = None
  /\ tab_created = FALSE
  /\ gpu_tier_var = DefaultTier
  /\ visible_gpu_tier = None
  /\ deploy_local_only = FALSE
  /\ deployment_checkboxes = EmptyDict
  /\ local_only_checkboxes = EmptyDict
  /\ selected_count = 0
  /\ deployment_tasks = <<>>
  /\ last_event = "none"
  /\ left_checkboxes = EmptyDict
  /\ events = 0
  /\ left_mode = EmptyDict

Init == SelInit /\ ExecIdle /\ DepIdle /\ LifeIdle /\ RunIdle /\ WaitIdle

Next ==
  \/ CreateDeploymentTab
  \/ \E n \in Nodes, p \in Providers : ClickCheckbox(n, p)
  \/ \E n \in Nodes : ClickLocalCheckbox(n)
  \/ \E value \in BOOLEAN : SetAll(value)
  \/ \E t \in Tiers : ChangeTier(t)
  \/ ToggleLocalOnly
  \/ DeploySelected

Spec == Init /\ [][Next]_vars

(***************************************************************************)
(* Properties of the selection state manager.                              *)
(***************************************************************************)
NormalTasks ==
  get_selected_deployments(deployment_state, current_gpu_tier,
                           deployment_checkboxes, local_only_checkboxes, FALSE)

NoDuplicates(tasks) ==
  \A i, j \in DOMAIN tasks : i # j => tasks[i] # tasks[j]

\* the visible table with a "local" variable added to every row, checked for
\* the nodes of L
WithLocal(cbs, L) == [n \in DOMAIN cbs |-> Put(cbs[n], "local", n \in L)]

\* C1: mode-switch non-loss.  Right after a switch back to a tier that was
\* left before, the visible checkboxes equal the checkboxes that were visible
\* (and so committed) under that tier when it was left.
ModeSwitchNonLoss ==
  (last_event = "tier" /\ visible_gpu_tier \in DOMAIN left_checkboxes)
    => deployment_checkboxes = left_checkboxes[visible_gpu_tier]

\* FLUX Dev -> aws checked at a10g is checked again after a10g -> t4 -> a10g
ModeSwitchNonLossWitness ==
  /\ last_event = "tier"
  /\ visible_gpu_tier = "a10g"
  /\ "a10g" \in DOMAIN left_checkboxes
  /\ left_checkboxes["a10g"]["FLUX Dev"]["aws"]
  /\ deployment_checkboxes["FLUX Dev"]["aws"]

\* C2: auto-local rule.  In normal mode a node with a non-local provider
\* checked under the active tier, whose local selection is unchecked or was
\* never made, has the task (node, "local", active tier) in the list of
\* get_selected_deployments(is_local_only=False).
AutoLocalRule ==
  (tab_created /\ ~deploy_local_only) =>
    \A n \in DOMAIN deployment_checkboxes :
      ( /\ \E p \in DOMAIN deployment_checkboxes[n] :
             p # "local" /\ deployment_checkboxes[n][p]
        /\ \/ "local" \notin DOMAIN deployment_checkboxes[n]
           \/ ~deployment_checkboxes[n]["local"] )
      => <<n, "local", current_gpu_tier>> \in Range(NormalTasks)

\* C3: deduplication.  The list of get_selected_deployments has no two equal
\* tasks, in local-only and in normal mode, for the visible table and for the
\* visible table extended by a "local" variable per row (the rows whose
\* auto-added local task is then built), and so has the list deploy_selected
\* collected.
Deduplication ==
  /\ NoDuplicates(deployment_tasks)
  /\ \A is_local_only \in BOOLEAN :
       NoDuplicates(get_selected_deployments(deployment_state, current_gpu_tier,
         deployment_checkboxes, local_only_checkboxes, is_local_only))
  /\ \A L \in SUBSET (DOMAIN deployment_checkboxes) :
       NoDuplicates(get_selected_deployments(deployment_state, current_gpu_tier,
         WithLocal(deployment_checkboxes, L), local_only_checkboxes, FALSE))

\* a combination that is checked both in the committed state of the active
\* tier and in the visible table has been collected by deploy_selected
DeduplicationWitness ==
  /\ last_event = "deploy"
  /\ ~deploy_local_only
  /\ \E n \in DOMAIN deployment_checkboxes : \E p \in Providers :
       /\ deployment_checkboxes[n][p]
       /\ deployment_state[current_gpu_tier][n][p]
       /\ <<n, p, current_gpu_tier>> \in Range(deployment_tasks)
       /\ Len(deployment_tasks) >= 2

\* the value recorded for (node, provider) under a tier is "checked"
Stored(ds, t, n, p) ==
  /\ t \in DOMAIN ds
  /\ n \in DOMAIN ds[t]
  /\ p \in DOMAIN ds[t][n]
  /\ ds[t][n][p]

\* C11 (union across tiers): in normal mode get_selected_deployments returns
\* the task (n, p, t) for every tier t, active or not, node n and provider p
\* whose stored value under t is checked; so does the list deploy_selected
\* has collected in normal mode.
UnionAcrossTiers ==
  \A t \in DOMAIN deployment_state : \A n \in Nodes : \A p \in Providers :
    Stored(deployment_state, t, n, p)
      => /\ <<n, p, t>> \in Range(NormalTasks)
         /\ (last_event = "deploy" /\ ~deploy_local_only)
              => <<n, p, t>> \in Range(deployment_tasks)

\* deploy_selected has collected a task of a tier that is not the active one
UnionAcrossTiersWitness ==
  /\ last_event = "deploy"
  /\ ~deploy_local_only
  /\ \E t \in Tiers : \E n \in Nodes : \E p \in Providers :
       /\ t # current_gpu_tier
       /\ Stored(deployment_state, t, n, p)
       /\ <<n, p, t>> \in Range(deployment_tasks)

\* every node with a non-local task of the list has a local task in it
HasCompanionLocal(tasks) ==
  \A i \in DOMAIN tasks :
    tasks[i][2] # "local"
      => \E j \in DOMAIN tasks : tasks[j][1] = tasks[i][1] /\ tasks[j][2] = "local"

\* C12 (companion-local invariant): every task list returned in normal mode
\* holds, for every node with a task of a non-local provider under any tier,
\* a local task for that node.
CompanionLocal ==
  /\ HasCompanionLocal(NormalTasks)
  /\ (last_event = "deploy" /\ ~deploy_local_only)
       => HasCompanionLocal(deployment_tasks)

\* the distinct (tier, node, provider) combinations that are checked in the
\* committed state or in the visible table of the active tier
CheckedCombinations ==
  {c \in (Tiers \cup {None}) \X Nodes \X Providers :
     \/ Stored(deployment_state, c[1], c[2], c[3])
     \/ /\ c[1] = current_gpu_tier
        /\ c[2] \in DOMAIN deployment_checkboxes
        /\ deployment_checkboxes[c[2]][c[3]]}

\* C13 (selected count): update_selected_count returns, in normal mode, the
\* number of distinct (tier, node, provider) combinations checked in the
\* committed state or in the visible table of the active tier, one for a
\* combination in both; in local-only mode the number of checked nodes.
SelectedCountUnique ==
  /\ update_selected_count(deployment_state, current_gpu_tier,
                           deployment_checkboxes, local_only_checkboxes, FALSE)
       = Cardinality(CheckedCombinations)
  /\ update_selected_count(deployment_state, current_gpu_tier,
                           deployment_checkboxes, local_only_checkboxes, TRUE)
       = Cardinality({n \in Nodes : /\ n \in DOMAIN local_only_checkboxes
                                    /\ local_only_checkboxes[n]})

\* two combinations are checked and visible, one of them under another tier
\* as well: the count is three
SelectedCountUniqueWitness ==
  /\ ~deploy_local_only
  /\ Cardinality({k \in CheckboxKeys(deployment_checkboxes) :
                    /\ deployment_checkboxes[k[1]][k[2]]
                    /\ Stored(deployment_state, current_gpu_tier, k[1], k[2])}) = 2
  /\ Cardinality(CheckedCombinations) = 3
  /\ selected_count = 3

\* two values of deployment_state hold the same for a tier
SameTierEntry(ds1, ds2, t) ==
  /\ (t \in DOMAIN ds1) = (t \in DOMAIN ds2)
  /\ t \in DOMAIN ds1 => ds1[t] = ds2[t]

\* C14 (history of other tiers): no handler of the tab (a checkbox change
\* recorded under the active tier, a save under a tier, a switch between two
\* tiers, a mode switch) modifies or removes what is stored for a tier that
\* is neither the tier saved nor the tier written, that is, neither the
\* visible/active tier before the step nor the one after it.
OtherTiersKept ==
  [][\A t \in Tiers \cup {None} :
       t \notin {visible_gpu_tier, current_gpu_tier,
                 visible_gpu_tier', current_gpu_tier'}
         => SameTierEntry(deployment_state, deployment_state', t)]_vars

\* a10g holds a checked selection while the table has gone from t4 to a100
OtherTiersKeptWitness ==
  /\ last_event = "tier"
  /\ visible_gpu_tier = "a100"
  /\ "t4" \in DOMAIN left_checkboxes
  /\ Stored(deployment_state, "a10g", "FLUX Dev", "aws")

\* deployment_state without what it holds for node n under tier t
WithoutNode(ds, t, n) ==
  [ds EXCEPT ![t] = [m \in (DOMAIN ds[t]) \ {n} |-> ds[t][m]]]

\* the fresh table after restore_state_for_gpu_tier(t) shows what ds holds
\* for t: the stored value, unchecked where none is stored
ShowsStored(ds, t) ==
  \A n \in Nodes : \A p \in Providers :
    RestoredCheckboxes(ds, t, NormalTable)[n][p] = Stored(ds, t, n, p)

\* C15 (tier switch): a switch of the tier leaves the values of the visible
\* checkboxes stored under the old tier, and the new table shows what was
\* stored for the new tier: each checkbox has the stored value and is
\* unchecked where the new tier has none.  The restore into a fresh table
\* shows the stored state also when the tier has values for other nodes only.
TierSwitchView ==
  /\ [][(last_event' = "tier" /\ events' = events + 1)
          => /\ \A n \in DOMAIN deployment_checkboxes : \A p \in Providers :
                  Stored(deployment_state', visible_gpu_tier, n, p)
                    = deployment_checkboxes[n][p]
             /\ \A n \in Nodes : \A p \in Providers :
                  deployment_checkboxes'[n][p]
                    = Stored(deployment_state, visible_gpu_tier', n, p)]_vars
  /\ [](\A t \in DOMAIN deployment_state :
          /\ ShowsStored(deployment_state, t)
          /\ \A n \in DOMAIN deployment_state[t] :
               ShowsStored(WithoutNode(deployment_state, t, n), t))

\* back at a10g: FLUX Canny -> aws, stored for a10g, is shown checked,
\* FLUX Dev -> aws, checked at t4 only, is shown unchecked and is stored
\* under t4
TierSwitchViewWitness ==
  /\ last_event = "tier"
  /\ visible_gpu_tier = "a10g"
  /\ "a10g" \in DOMAIN left_checkboxes
  /\ deployment_checkboxes["FLUX Canny"]["aws"]
  /\ ~deployment_checkboxes["FLUX Dev"]["aws"]
  /\ Stored(deployment_state, "t4", "FLUX Dev", "aws")

\* two values of deployment_state hold the same checked selections
SameSelections(ds1, ds2) ==
  \A t \in Tiers \cup {None} : \A n \in Nodes : \A p \in Providers :
    Stored(ds1, t, n, p) = Stored(ds2, t, n, p)
SameLocalSelections(ls1, ls2) ==
  \A n \in Nodes : GetOr(ls1, n, FALSE) = GetOr(ls2, n, FALSE)

\* C16 (state of the inactive mode is retained): while the table is in
\* local-only mode every tier's stored selections are as they were when
\* normal mode was left, and the toggle back to normal mode shows the
\* checkboxes of the active tier as they were; while in normal mode the
\* local-only selections are as they were when local-only mode was left, and
\* the toggle back to local-only mode shows them as they were.
InactiveModeRetained ==
  /\ ("normal" \in DOMAIN left_mode /\ deploy_local_only)
       => SameSelections(deployment_state, left_mode["normal"].ds)
  /\ ("normal" \in DOMAIN left_mode /\ ~deploy_local_only /\ last_event = "mode")
       => /\ SameSelections(deployment_state, left_mode["normal"].ds)
          /\ deployment_checkboxes = left_mode["normal"].cbs
  /\ ("local_only" \in DOMAIN left_mode /\ ~deploy_local_only)
       => SameLocalSelections(local_only_state, left_mode["local_only"].ls)
  /\ ("local_only" \in DOMAIN left_mode /\ deploy_local_only /\ last_event = "mode")
       => /\ SameLocalSelections(local_only_state, left_mode["local_only"].ls)
          /\ local_only_checkboxes = left_mode["local_only"].lcbs

\* FLUX Dev -> aws, checked before normal -> local-only -> normal, is shown
\* checked again, and a local-only selection made in between is kept
InactiveModeRetainedWitness ==
  /\ last_event = "mode"
  /\ ~deploy_local_only
  /\ "normal" \in DOMAIN left_mode
  /\ left_mode["normal"].cbs["FLUX Dev"]["aws"]
  /\ deployment_checkboxes["FLUX Dev"]["aws"]
  /\ "local_only" \in DOMAIN left_mode
  /\ left_mode["local_only"].lcbs["FLUX Dev"]
  /\ local_only_state["FLUX Dev"]

\* the nodes whose local-only checkbox is checked
CheckedLocal == {n \in DOMAIN local_only_checkboxes : local_only_checkboxes[n]}
ExactlyLocalTasks(tasks) ==
  /\ Range(tasks) = {<<n, "local", None>> : n \in CheckedLocal}
  /\ Len(tasks) = Cardinality(CheckedLocal)

\* C17 (local-only exclusivity): in local-only mode the task list is exactly
\* one (node, "local", None) per checked node and nothing else, whatever
\* deployment_state holds: both what get_selected_deployments returns and
\* what the Deploy button hands to the batch.
LocalOnlyExclusive ==
  /\ ExactlyLocalTasks(get_selected_deployments(deployment_state,
       current_gpu_tier, deployment_checkboxes, local_only_checkboxes, TRUE))
  /\ (deploy_local_only /\ last_event = "deploy")
       => ExactlyLocalTasks(deployment_tasks)

\* Deploy pressed in local-only mode with one node checked and one not, while
\* deployment_state holds a checked tiered selection
LocalOnlyExclusiveWitness ==
  /\ deploy_local_only
  /\ last_event = "deploy"
  /\ deployment_tasks = <<<<"FLUX Dev", "local", None>>>>
  /\ CheckedLocal # DOMAIN local_only_checkboxes
  /\ \E t \in Tiers : \E n \in Nodes : \E p \in Providers :
       Stored(deployment_state, t, n, p)


\* C33: gpu_tier is null only for the local provider.  In every state, the
\* one before the tab has set a current tier included, the list
\* get_selected_deployments returns for the mode shown and the list the
\* Deploy button last handed over hold no task of another provider than
\* "local" with the tier None; tiers are recorded under tier names only.
TierNullOnlyLocal(tasks) ==
  \A i \in 1..Len(tasks) :
    /\ tasks[i][3] = None => tasks[i][2] = "local"
    /\ tasks[i][2] # "local" => tasks[i][3] \in Tiers
NullTierOnlyForLocal ==
  /\ DOMAIN deployment_state \subseteq Tiers
  /\ TierNullOnlyLocal(get_selected_deployments(deployment_state,
       current_gpu_tier, deployment_checkboxes, local_only_checkboxes,
       deploy_local_only))
  /\ TierNullOnlyLocal(deployment_tasks)

\* Deploy was pressed in normal mode with a checked provider of a tier that
\* was left and one of the current tier
NullTierOnlyForLocalWitness ==
  /\ ~deploy_local_only
  /\ last_event = "deploy"
  /\ \E i, j \in 1..Len(deployment_tasks) :
       /\ deployment_tasks[i][3] # deployment_tasks[j][3]
       /\ deployment_tasks[i][2] # "local"
       /\ deployment_tasks[j][3] = current_gpu_tier

\* C38: unchecking removes a task.  When the value recorded last for
\* (node, provider) under a tier is unchecked, be the tier the active one
\* or one that was left, get_selected_deployments in normal mode does not
\* return (node, provider, tier), the auto-added local task of the active
\* tier excepted.
RecordedUnchecked(ds, t, n, p) ==
  /\ t \in DOMAIN ds
  /\ n \in DOMAIN ds[t]
  /\ p \in DOMAIN ds[t][n]
  /\ ~ds[t][n][p]
NormalModeTasks ==
  get_selected_deployments(deployment_state, current_gpu_tier,
                           deployment_checkboxes, local_only_checkboxes, FALSE)
UncheckedNotSelected ==
  \A t \in Tiers, n \in Nodes, p \in Range(ProviderKeys) :
    (/\ RecordedUnchecked(deployment_state, t, n, p)
     /\ ~(p = "local" /\ t = current_gpu_tier))
    => <<n, p, t>> \notin Range(NormalModeTasks)

\* all checkboxes were checked with "select all" and one of them was then
\* unchecked by a click (two events, every checkbox but one checked): the
\* tasks of the others are returned, the task of that one is not
UncheckedNotSelectedWitness ==
  /\ ~deploy_local_only
  /\ last_event = "checkbox"
  /\ events = 2
  /\ \E n \in Nodes, p \in Providers :
       /\ RecordedUnchecked(deployment_state, current_gpu_tier, n, p)
       /\ <<n, p, current_gpu_tier>> \notin Range(NormalModeTasks)
       /\ \A m \in Nodes, q \in Providers :
            <<m, q>> # <<n, p>>
              => /\ Stored(deployment_state, current_gpu_tier, m, q)
                 /\ <<m, q, current_gpu_tier>> \in Range(NormalModeTasks)

(***************************************************************************)
(* execute_deployments (gui/tabs/deployment_actions.py) and the endpoint   *)
(* store (config/config_manager.py).                                       *)
(*                                                                         *)
(* The endpoint store is the file endpoints_file: missing, a JSON list of  *)
(* records, JSON of another shape (a dictionary), or not JSON at all.      *)
(* What a provider's deployer does for a task (return a record or raise)   *)
(* and whether a write of the file succeeds are inputs of the run.         *)
(***************************************************************************)
\* how many tasks a batch has at most
MaxTasks == 3

\* provider names of the tasks of a batch: the four deployable providers,
\* "nvidia-hosted", and a name execute_deployments does not know
ExecProviders == {"aws", "azure", "gcp", "local", "nvidia-hosted", "oracle"}
\* a provider chain that ends in a deployer instead of "Unknown provider"
DeployableProvidersAny == ExecProviders \ {"nvidia-hosted"}
DeployableProviders == {"aws", "azure", "gcp", "local"}

\* the providers whose deploy_to_<provider> asks the credential store
CloudProviders == {"aws", "azure", "gcp"}

\* deploy_to_<provider> gets past its credentials check: deploy_to_local
\* asks for none; a cloud handler raises unless get_credentials returned
\* what it needs (with the ConfigManager of the repository, which has no
\* method get_credentials, the call itself raises, at the same place)
has_credentials_any(provider, creds) == TRUE
has_credentials(provider, creds) ==
  provider \notin CloudProviders \/ provider \in creds

\* the tasks deploy_selected passes: cloud tasks carry a tier, local-only
\* tasks carry None (deployment_tab.py:351)
ExecTaskSet ==
  {<<nim_nodes[1], p, IF p = "local" THEN None ELSE DefaultTier>> :
     p \in ExecProviders}
Batches == UNION {[1..n -> ExecTaskSet] : n \in 1..MaxTasks}

\* the record deploy_nim_instance returns for the i-th task of the batch
\* (id stands for deployed_at, which tells the records of one run apart)
DeploymentInfo(i, task) ==
  [id |-> i, node_type |-> task[1], provider |-> task[2]]
\* the instance_name of a record of the local deployer: deploy_to_local
\* passes no name, the deployer makes "nim-<node type>-local"
LocalInstanceName(node_type) == <<"nim", node_type, "local">>
\* a record an earlier run left in the store
OldRecord == [id |-> 0, node_type |-> nim_nodes[1], provider |-> "local"]

\* ConfigManager.load_endpoints followed by deployment_actions.py:56-57:
\* a missing file and a file that fails to load give [], and so does
\* content that is not a list.
load_endpoints(file) == IF file.kind = "list" THEN file.items ELSE <<>>

\* ConfigManager.save_endpoints: the file is opened for writing (which
\* truncates it) and the list is dumped.  outcome "ok": written; "open":
\* open() raised, the file is untouched; "dump": the write raised after the
\* file was truncated.  Both failures re-raise.
save_endpoints(file, endpoints, outcome) ==
  CASE outcome = "ok"   -> [kind |-> "list", items |-> endpoints]
    [] outcome = "open" -> file
    [] outcome = "dump" -> [kind |-> "corrupt", items |-> <<>>]
SaveOutcomes == {"ok", "open", "dump"}

\* the for loop goes on with the next task whether or not the task raised
\* (the try/except is inside the loop, deployment_actions.py:33-66)
NextTaskAbort(i, raised) == IF raised THEN Len(exec_tasks) + 1 ELSE i + 1
NextTask(i, raised) == i + 1

\* One iteration of the for loop, deployment_actions.py:30-66, for a task of
\* a deployable provider whose deploy_to_<provider> returned a record.
TaskDeployed(save) ==
  LET i == exec_i
      result == DeploymentInfo(i, exec_tasks[i])
      endpoints == Append(load_endpoints(endpoints_file), result)
  IN  /\ UNCHANGED execOthers
      /\ exec_i <= Len(exec_tasks)
      /\ exec_tasks[i][2] \in DeployableProviders
      /\ has_credentials(exec_tasks[i][2], credentials)
      /\ deployer_outcome' = Append(deployer_outcome, "returned")
      /\ results' = Append(results, result)
      /\ endpoints_file' = save_endpoints(endpoints_file, endpoints, save)
      /\ errors' = IF save = "ok" THEN errors
                   ELSE Append(errors, [task |-> i, msg |-> "Failed to deploy"])
      /\ exec_i' = NextTask(i, save # "ok")
      /\ UNCHANGED <<exec_tasks, ui_updated, refresh_calls, store_before,
                     credentials>>

\* One iteration for a task whose deployer raised (in its constructor or in
\* deploy_nim_instance): the except clause records the error.
TaskRaised ==
  LET i == exec_i
  IN  /\ UNCHANGED execOthers
      /\ exec_i <= Len(exec_tasks)
      /\ exec_tasks[i][2] \in DeployableProviders
      /\ has_credentials(exec_tasks[i][2], credentials)
      /\ deployer_outcome' = Append(deployer_outcome, "raised")
      /\ errors' = Append(errors, [task |-> i, msg |-> "Failed to deploy"])
      /\ exec_i' = NextTask(i, TRUE)
      /\ UNCHANGED <<exec_tasks, results, endpoints_file, ui_updated,
                     refresh_calls, store_before, credentials>>

\* One iteration for a cloud task whose deploy_to_<provider> raised at its
\* credentials check, before the deployer is constructed
\* (deployment_handlers.py:29-31, 88-90 and 101, 164-166 and 175); the
\* except clause of the loop records the error.
TaskCredentialsMissing ==
  LET i == exec_i
  IN  /\ UNCHANGED execOthers
      /\ exec_i <= Len(exec_tasks)
      /\ exec_tasks[i][2] \in DeployableProviders
      /\ ~has_credentials(exec_tasks[i][2], credentials)
      /\ deployer_outcome' = Append(deployer_outcome, "no_credentials")
      /\ errors' = Append(errors, [task |-> i, msg |-> "Failed to deploy"])
      /\ exec_i' = NextTask(i, TRUE)
      /\ UNCHANGED <<exec_tasks, results, endpoints_file, ui_updated,
                     refresh_calls, store_before, credentials>>

\* One iteration for "nvidia-hosted": no deployer, one error entry.
TaskNvidiaHosted ==
  LET i == exec_i
  IN  /\ UNCHANGED execOthers
      /\ exec_i <= Len(exec_tasks)
      /\ exec_tasks[i][2] = "nvidia-hosted"
      /\ deployer_outcome' = Append(deployer_outcome, "none")
      /\ errors' = Append(errors, [task |-> i, msg |-> "Phase 5"])
      /\ exec_i' = NextTask(i, FALSE)
      /\ UNCHANGED <<exec_tasks, results, endpoints_file, ui_updated,
                     refresh_calls, store_before, credentials>>

\* One iteration for any other provider name: no deployer; "Unknown
\* provider" is recorded, result stays None and line 60-61 records
\* "Deployment failed" as well.
TaskUnknownProvider ==
  LET i == exec_i
  IN  /\ UNCHANGED execOthers
      /\ exec_i <= Len(exec_tasks)
      /\ exec_tasks[i][2] \notin DeployableProviders \cup {"nvidia-hosted"}
      /\ deployer_outcome' = Append(deployer_outcome, "none")
      /\ errors' = errors \o <<[task |-> i, msg |-> "Unknown provider"],
                                [task |-> i, msg |-> "Deployment failed"]>>
      /\ exec_i' = NextTask(i, FALSE)
      /\ UNCHANGED <<exec_tasks, results, endpoints_file, ui_updated,
                     refresh_calls, store_before, credentials>>

\* update_ui, scheduled with root.after when the loop has ended
UpdateUI ==
  /\ UNCHANGED execOthers
  /\ exec_i = Len(exec_tasks) + 1
  /\ ~ui_updated
  /\ ui_updated' = TRUE
  /\ refresh_calls' = IF results # <<>> THEN refresh_calls + 1 ELSE refresh_calls
  /\ UNCHANGED <<exec_tasks, exec_i, results, errors, endpoints_file,
                 store_before, deployer_outcome, credentials>>

\* the endpoint stores a run may find
InitialStores ==
  {[kind |-> "missing", items |-> <<>>],
   [kind |-> "list", items |-> <<>>],
   [kind |-> "list", items |-> <<OldRecord>>],
   [kind |-> "other", items |-> <<OldRecord>>],
   [kind |-> "corrupt", items |-> <<>>]}

\* deploy_selected has started the thread of execute_deployments
ExecInit ==
  /\ exec_tasks \in Batches
  /\ exec_i = 1
  /\ results = <<>>
  /\ errors = <<>>
  /\ endpoints_file \in InitialStores
  /\ ui_updated = FALSE
  /\ refresh_calls = 0
  /\ store_before = endpoints_file
  /\ deployer_outcome = <<>>
  /\ credentials \in SUBSET CloudProviders

InitExec == ExecInit /\ SelInit /\ DepIdle /\ LifeIdle /\ RunIdle /\ WaitIdle

NextExec ==
  \/ \E save \in SaveOutcomes : TaskDeployed(save)
  \/ TaskRaised
  \/ TaskCredentialsMissing
  \/ TaskNvidiaHosted
  \/ TaskUnknownProvider
  \/ UpdateUI

SpecExec == InitExec /\ [][NextExec]_vars

\* the for loop has ended
LoopDone == exec_tasks # <<>> /\ exec_i = Len(exec_tasks) + 1

(***************************************************************************)
(* The provider deployers (deployment/aws_deployer.py, azure_deployer.py,  *)
(* gcp_deployer.py, local_deployer.py): deploy_nim_instance, step by step, *)
(* called twice (from two threads, or one call after the other) against   *)
(* one provider account.  Every call of the provider's API is one step;    *)
(* what the provider answers is an input of the step.                      *)
(*                                                                         *)
(* azure_deployer.py and gcp_deployer.py open a second "try:" in           *)
(* _get_or_create_aks_cluster/_get_or_create_gke_cluster that has no       *)
(* handler; the model follows the inner try/except, which has one.         *)
(***************************************************************************)
\* _get_endpoint_url of the Azure and GCP deployers
max_retries == 30

Other(d) == CHOOSE e \in Deployments : e # d
KubernetesProviders == {"azure", "gcp"}
ActiveCluster == [status |-> "ACTIVE", gpu_pool |-> TRUE]

\* the clusters of the deployer's cluster name a provider account may hold
\* before the first call: none, one in use, and one that the lookup of the
\* provider treats specially (deleted on AWS, without GPU pool on AKS/GKE)
InitialClusters(provider) ==
  CASE provider = "aws" ->
         {<<>>, <<ActiveCluster>>, <<[status |-> "INACTIVE", gpu_pool |-> TRUE]>>}
    [] provider \in KubernetesProviders ->
         {<<>>, <<ActiveCluster>>, <<[status |-> "ACTIVE", gpu_pool |-> FALSE]>>}
    [] OTHER -> {<<>>}

\* Does the lookup of _get_or_create_cluster / _get_or_create_aks_cluster /
\* _get_or_create_gke_cluster return the existing cluster?  response is
\* "answered" when the provider answered, "error" when the call raised.
UseExistingNever(provider, clusters, response) == FALSE
UseExisting(provider, clusters, response) ==
  /\ response = "answered"
  /\ clusters # <<>>
  /\ (provider = "aws" => clusters[1].status = "ACTIVE")

\* what the lookup saw
Observed(clusters, response) ==
  IF response = "error" THEN "error"
  ELSE IF clusters = <<>> THEN "not_found"
  ELSE IF clusters[1].status = "ACTIVE" THEN "found" ELSE "inactive"

\* The provider's create call for a cluster name.  ECS create_cluster
\* returns the cluster when an active one of that name exists; AKS
\* begin_create_or_update creates or updates; GKE create_cluster refuses an
\* existing name with AlreadyExists, and the cluster it creates has the
\* system node pool only.
create_cluster(provider, clusters) ==
  CASE provider = "aws" ->
         [clusters |-> IF clusters # <<>> /\ clusters[1].status = "ACTIVE"
                       THEN clusters ELSE <<ActiveCluster>>,
          raised |-> None]
    [] provider = "azure" -> [clusters |-> <<ActiveCluster>>, raised |-> None]
    [] OTHER ->
         IF clusters # <<>>
         THEN [clusters |-> clusters, raised |-> "AlreadyExists"]
         ELSE [clusters |-> <<[status |-> "ACTIVE", gpu_pool |-> FALSE]>>,
               raised |-> None]

\* the replica count deploy_nim_instance asks for
Replicas(provider, s2z) ==
  IF provider = "local" THEN 1 ELSE IF s2z THEN 0 ELSE 1

\* the "status" of the record deploy_nim_instance returns
DeployedStatus(provider, s2z) ==
  IF provider \in KubernetesProviders /\ s2z THEN "stopped" ELSE "running"

\* One attempt of _get_endpoint_url.  outcome is what the provider answered:
\* "address" (tasks with a public IP, an ingress address, a port mapping),
\* "no_ip" (AWS: tasks, but no address to be had), "empty" (none yet) or
\* "error" (the call raised).  The result says how the function goes on.
resolve_attempt(provider, retry, outcome) ==
  CASE outcome = "address" -> [retry_count |-> retry, result |-> "resolved"]
    [] provider \in KubernetesProviders ->
         IF retry + 1 < max_retries
         THEN [retry_count |-> retry + 1, result |-> "retry"]
         ELSE [retry_count |-> retry + 1, result |-> "placeholder"]
    [] provider = "aws" ->
         IF outcome = "error" THEN [retry_count |-> retry, result |-> "raised"]
         ELSE IF outcome = "empty" /\ retry = 0
              THEN [retry_count |-> 1, result |-> "retry"]
              ELSE [retry_count |-> retry, result |-> "placeholder"]
    [] OTHER -> [retry_count |-> retry, result |-> "placeholder"]

\* the variables the deployers leave alone
depOthers == <<selVars, execVars, lifeVars, runVars, waitVars>>

\* an except clause that logs the error and lets deploy_nim_instance go on
\* with its next step
RaiseLogged(d, why) ==
  /\ pc' = [pc EXCEPT ![d] = "workload"]
  /\ failure' = [failure EXCEPT ![d] = why]

\* deploy_nim_instance raises: the except clause logs and re-raises
Raise(d, why) ==
  /\ pc' = [pc EXCEPT ![d] = "raised"]
  /\ failure' = [failure EXCEPT ![d] = why]

\* a step of call d has completed
Done(d, step) == steps_done' = [steps_done EXCEPT ![d] = Append(@, step)]

\* a deploy_nim_instance that goes from its cluster straight to the workload
AfterClusterWorkload(provider, clusters) == "workload"

\* Where deploy_nim_instance goes when it has its cluster: the AWS deployer
\* to _ensure_ec2_capacity (step 2); the AKS and GKE deployers to
\* _create_gpu_node_pool when the cluster has no GPU node pool, and else to
\* the workload.
AfterCluster(provider, clusters) ==
  IF provider = "aws" \/ ~clusters[1].gpu_pool THEN "capacity" ELSE "workload"

\* the steps of the other call at which its get-or-create has completed
ClusterStepOver(provider) ==
  IF provider = "aws" THEN {"capacity", "workload", "resolve", "returned"}
                      ELSE {"workload", "resolve", "returned"}

\* call e created the cluster and raised at the step after it
LeftPartial(e) ==
  /\ pc[e] = "raised"
  /\ failure[e] = "InfrastructureError"
  /\ create_calls[e] = 1
  /\ steps_done[e] = <<"cluster">>

\* Step 1 of deploy_nim_instance, the lookup of the get-or-create: the
\* describe_clusters / managed_clusters.get / get_cluster call.
GetCluster(d, response) ==
  LET use == UseExisting(dep_provider, cloud_clusters, response)
  IN  /\ UNCHANGED depOthers
      /\ pc[d] = "start"
      /\ lookup_result' =
           [lookup_result EXCEPT ![d] = Observed(cloud_clusters, response)]
      /\ after_other' =
           [after_other EXCEPT
              ![d] = pc[Other(d)] \in ClusterStepOver(dep_provider)]
      /\ after_partial' = [after_partial EXCEPT ![d] = LeftPartial(Other(d))]
      /\ IF use
         THEN /\ pc' = [pc EXCEPT
                          ![d] = AfterCluster(dep_provider, cloud_clusters)]
              /\ Done(d, "cluster")
              /\ UNCHANGED failure
         ELSE IF dep_provider = "gcp" /\ response = "error"
              THEN Raise(d, "InfrastructureError") /\ UNCHANGED steps_done
              ELSE /\ pc' = [pc EXCEPT ![d] = "create"]
                   /\ UNCHANGED <<failure, steps_done>>
      /\ UNCHANGED <<dep_provider, scale_to_zero, instance_name, workloads,
                     cloud_clusters, retry_count, deployment_info,
                     create_calls, attempts, resolution, auto_scaling_group>>

\* Step 1, the create of the get-or-create: create_cluster (ECS),
\* begin_create_or_update with its GPU node pool (AKS), create_cluster and
\* the wait for it (GKE, whose GPU node pool is the next step).  response
\* "error" is a provider error other than "already exists".
CreateCluster(d, response) ==
  LET created == create_cluster(dep_provider, cloud_clusters)
  IN  /\ UNCHANGED depOthers
      /\ pc[d] = "create"
      /\ create_calls' = [create_calls EXCEPT ![d] = @ + 1]
      /\ IF response = "error"
         THEN /\ Raise(d, "InfrastructureError")
              /\ UNCHANGED <<cloud_clusters, steps_done>>
         ELSE IF created.raised # None
              THEN /\ Raise(d, created.raised)
                   /\ UNCHANGED <<cloud_clusters, steps_done>>
              ELSE /\ cloud_clusters' = created.clusters
                   /\ pc' = [pc EXCEPT
                               ![d] = AfterCluster(dep_provider,
                                                   created.clusters)]
                   /\ Done(d, "cluster")
                   /\ UNCHANGED failure
      /\ UNCHANGED <<dep_provider, scale_to_zero, instance_name, workloads,
                     retry_count, deployment_info, lookup_result, after_other,
                     attempts, resolution, auto_scaling_group, after_partial>>

\* what the provider can answer at the capacity step.  AWS
\* (_ensure_ec2_capacity): "answered", describe_auto_scaling_groups
\* returned, and the function returns at once; "not_found", the describe
\* raised and network, role, launch template and Auto Scaling Group were set
\* up ("already exists" of the group is not an error); "error", the describe
\* raised and one of the set-up calls raised.  AKS and GKE
\* (_create_gpu_node_pool): "answered", the pool was created; "error", the
\* create call or the wait for it raised.  On AKS the call stands inside the
\* try of the lookup, whose "except AzureError: pass" takes the error: the
\* function goes on to create (begin_create_or_update) the cluster.
CapacityResponses(provider) ==
  IF provider = "aws" THEN {"answered", "not_found", "error"}
                      ELSE {"answered", "error"}

\* Step 2 of the AWS deployer, _ensure_ec2_capacity, and the
\* _create_gpu_node_pool of the AKS and GKE get-or-create.  An error is
\* logged and re-raised; what exists by then is not touched.
EnsureCapacity(d, response) ==
  /\ UNCHANGED depOthers
  /\ pc[d] = "capacity"
  /\ response \in CapacityResponses(dep_provider)
  /\ IF response = "error"
     THEN /\ IF dep_provider = "azure"
             THEN pc' = [pc EXCEPT ![d] = "create"] /\ UNCHANGED failure
             ELSE Raise(d, "InfrastructureError")
          /\ UNCHANGED <<cloud_clusters, auto_scaling_group, steps_done>>
     ELSE /\ pc' = [pc EXCEPT ![d] = "workload"]
          /\ Done(d, "capacity")
          /\ auto_scaling_group' =
               (auto_scaling_group \/ response = "not_found")
          /\ cloud_clusters' =
               IF dep_provider \in KubernetesProviders
               THEN <<[cloud_clusters[1] EXCEPT !.gpu_pool = TRUE]>>
               ELSE cloud_clusters
          /\ UNCHANGED failure
  /\ UNCHANGED <<dep_provider, scale_to_zero, instance_name, workloads,
                 retry_count, deployment_info, lookup_result, after_other,
                 create_calls, attempts, resolution, after_partial>>

\* The steps that create the workload: _create_ecs_service (an existing
\* service of the name is returned as it is), _create_k8s_deployment and
\* _create_k8s_service (409: the deployment is patched), and for the local
\* deployer the docker check, _update_docker_compose and _start_container.
CreateWorkload(d, response) ==
  LET name == instance_name[d]
      replicas == Replicas(dep_provider, scale_to_zero)
  IN  /\ UNCHANGED depOthers
      /\ pc[d] = "workload"
      /\ IF response = "error"
         THEN /\ Raise(d, "InfrastructureError")
              /\ UNCHANGED <<workloads, steps_done>>
         ELSE /\ workloads' =
                   IF dep_provider = "aws" /\ name \in DOMAIN workloads
                   THEN workloads ELSE Put(workloads, name, replicas)
              /\ pc' = [pc EXCEPT ![d] = "resolve"]
              /\ Done(d, "workload")
              /\ UNCHANGED failure
      /\ UNCHANGED <<dep_provider, scale_to_zero, instance_name,
                     cloud_clusters, retry_count, deployment_info,
                     lookup_result, after_other, create_calls, attempts,
                     resolution, auto_scaling_group, after_partial>>

\* what the provider can answer to an attempt of _get_endpoint_url: an ECS
\* service has tasks only when its desired count is not 0
AttemptOutcomes(d) ==
  IF dep_provider = "aws"
  THEN IF workloads[instance_name[d]] > 0
       THEN {"address", "no_ip", "empty", "error"} ELSE {"empty", "error"}
  ELSE {"address", "empty", "error"}

\* One attempt of _get_endpoint_url and, when it ends the function, the
\* rest of deploy_nim_instance: the record is built and returned.
ResolveAttempt(d, outcome) ==
  LET step == resolve_attempt(dep_provider, retry_count[d], outcome)
  IN  /\ UNCHANGED depOthers
      /\ pc[d] = "resolve"
      /\ outcome \in AttemptOutcomes(d)
      /\ attempts' = [attempts EXCEPT ![d] = @ + 1]
      /\ retry_count' = [retry_count EXCEPT ![d] = step.retry_count]
      /\ resolution' =
           [resolution EXCEPT
              ![d] = IF step.result = "retry" THEN None ELSE step.result]
      /\ CASE step.result = "retry" ->
                UNCHANGED <<pc, failure, deployment_info, steps_done>>
           [] step.result = "raised" ->
                /\ Raise(d, "EndpointError")
                /\ UNCHANGED <<deployment_info, steps_done>>
           [] OTHER ->
                /\ pc' = [pc EXCEPT ![d] = "returned"]
                /\ Done(d, "resolve")
                /\ deployment_info' =
                     [deployment_info EXCEPT
                        ![d] = [provider |-> dep_provider,
                                instance_name |-> instance_name[d],
                                endpoint |-> step.result,
                                status |->
                                  DeployedStatus(dep_provider, scale_to_zero)]]
                /\ UNCHANGED failure
      /\ UNCHANGED <<dep_provider, scale_to_zero, instance_name,
                     cloud_clusters, workloads, lookup_result, after_other,
                     create_calls, auto_scaling_group, after_partial>>

\* the names two calls get: "nim-<node>-<int(time.time())>" is the same
\* name when both calls fall into one second, the local name has no time
InstanceNames(provider) ==
  IF provider = "local"
  THEN {[d \in Deployments |-> "nim-flux-dev-local"]}
  ELSE {[d \in Deployments |-> "nim-flux-dev-1"],
        [d \in Deployments |-> IF d = 1 THEN "nim-flux-dev-1"
                                         ELSE "nim-flux-dev-2"]}

\* two calls of deploy_nim_instance are about to begin
DepInit ==
  /\ dep_provider \in DeployableProviders
  /\ scale_to_zero \in BOOLEAN
  /\ dep_provider = "local" => scale_to_zero
  /\ instance_name \in InstanceNames(dep_provider)
  /\ cloud_clusters \in InitialClusters(dep_provider)
  /\ workloads = EmptyDict
  /\ pc = [d \in Deployments |->
             IF dep_provider = "local" THEN "workload" ELSE "start"]
  /\ retry_count = [d \in Deployments |-> 0]
  /\ deployment_info = [d \in Deployments |-> None]
  /\ lookup_result = [d \in Deployments |-> None]
  /\ after_other = [d \in Deployments |-> FALSE]
  /\ create_calls = [d \in Deployments |-> 0]
  /\ attempts = [d \in Deployments |-> 0]
  /\ resolution = [d \in Deployments |-> None]
  /\ failure = [d \in Deployments |-> None]
  /\ auto_scaling_group = (dep_provider = "aws" /\ cloud_clusters # <<>>)
  /\ steps_done = [d \in Deployments |-> <<>>]
  /\ after_partial = [d \in Deployments |-> FALSE]

InitDeploy == DepInit /\ SelInit /\ ExecIdle /\ LifeIdle /\ RunIdle /\ WaitIdle

Responses == {"answered", "error"}

NextDeploy ==
  \/ \E d \in Deployments, response \in Responses : GetCluster(d, response)
  \/ \E d \in Deployments, response \in Responses : CreateCluster(d, response)
  \/ \E d \in Deployments, response \in {"answered", "not_found", "error"} :
       EnsureCapacity(d, response)
  \/ \E d \in Deployments, response \in Responses : CreateWorkload(d, response)
  \/ \E d \in Deployments, outcome \in {"address", "no_ip", "empty", "error"} :
       ResolveAttempt(d, outcome)

SpecDeploy == InitDeploy /\ [][NextDeploy]_vars

(***************************************************************************)
(* The lifecycle methods of one deployer object (start_deployment,         *)
(* stop_deployment, get_deployment_status, delete_deployment of the        *)
(* provider deployers) on the instances of its provider account.  The      *)
(* object is new: instances in the account were deployed by an earlier     *)
(* object or are deployed by this one.  What the provider answers to a     *)
(* call is an input of the call.                                           *)
(*                                                                         *)
(* The AWS methods take the first service whose name contains              *)
(* instance_name; of the names of the model, nim-flux-dev-10 contains     *)
(* nim-flux-dev-1.                                                         *)
(***************************************************************************)
LifeNames == {"nim-flux-dev-1", "nim-flux-dev-2", "nim-flux-dev-10"}

\* "instance_name in service_name" (aws_deployer.py:613, 673, 695): the
\* service name contains the instance name
NameContains(service_name, name) ==
  \/ service_name = name
  \/ service_name = "nim-flux-dev-10" /\ name = "nim-flux-dev-1"

\* the names a lifecycle method takes for the instance: the AWS methods go
\* through list_services and take a service whose name contains the
\* instance name, the others address the object of that name
Matches(provider, ws, name) ==
  IF provider = "aws" THEN {s \in DOMAIN ws : NameContains(s, name)}
                      ELSE {s \in DOMAIN ws : s = name}

\* first is the service an AWS method comes to first, in the order
\* list_services gives the services (the provider's order)
FirstListed(provider, ws, name, first) ==
  IF Matches(provider, ws, name) = {} THEN first = name
  ELSE first \in Matches(provider, ws, name)
Remove(d, k) == [x \in (DOMAIN d) \ {k} |-> d[x]]

\* the deployer has the client its lifecycle methods call: the boto3 clients
\* are made in AWSDeployer.__init__, the local deployer runs docker;
\* k8s_apps_api and k8s_core_api are None until deploy_nim_instance has run
\* _initialize_k8s_client on the object
ClientReady(provider, client) ==
  provider \notin KubernetesProviders \/ client

\* update_service(desiredCount=count) / patch_namespaced_deployment_scale /
\* docker-compose start|stop, inside "try ... except Exception: return
\* False".  A name that is not there is no match in the AWS loop, a 404 on
\* AKS and GKE, "no such service" for docker-compose.
set_replicas(provider, client, ws, name, first, response, count) ==
  IF /\ ClientReady(provider, client)
     /\ response = "answered"
     /\ first \in Matches(provider, ws, name)
  THEN [workloads |-> [ws EXCEPT ![first] = count], result |-> "True"]
  ELSE [workloads |-> ws, result |-> "False"]

start_deployment(provider, client, ws, name, first, response) ==
  set_replicas(provider, client, ws, name, first, response, 1)

stop_deployment(provider, client, ws, name, first, response) ==
  set_replicas(provider, client, ws, name, first, response, 0)

\* get_deployment_status.  AWS and local catch every exception and fall
\* through to the "unknown" result; AKS and GKE catch ApiException only, so
\* the AttributeError of a client that is None and an error of the
\* connection leave the method as exceptions.  "docker ps" lists running
\* containers only.  ready is the provider's count of ready replicas.
UnknownStatus == [status |-> "unknown", desiredCount |-> 0]
get_deployment_status(provider, client, ws, name, first, response, ready) ==
  CASE provider \in KubernetesProviders ->
         IF ~client \/ response = "connection_error"
         THEN [status |-> "raised", desiredCount |-> 0]
         ELSE IF response = "answered" /\ name \in DOMAIN ws
              THEN [status |-> IF ready > 0 THEN "running" ELSE "stopped",
                    desiredCount |-> ws[name]]
              ELSE UnknownStatus
    [] provider = "aws" ->
         IF response = "answered" /\ first \in Matches(provider, ws, name)
         THEN [status |-> "ACTIVE", desiredCount |-> ws[first]]
         ELSE UnknownStatus
    [] OTHER ->
         IF response = "answered" /\ name \in DOMAIN ws /\ ws[name] > 0
         THEN [status |-> "running", desiredCount |-> 1]
         ELSE UnknownStatus

\* delete_deployment of the AKS and GKE deployers: the deployment is
\* deleted, then the service, whose error is swallowed ("service_error");
\* every exception of the first call, the 404 of a name that is not there
\* included, ends in "return False".
delete_deployment(provider, client, ws, svcs, name, response) ==
  IF client /\ response \in {"answered", "service_error"} /\ name \in DOMAIN ws
  THEN [workloads |-> Remove(ws, name),
        services |-> IF response = "answered" THEN svcs \ {name} ELSE svcs,
        result |-> "True"]
  ELSE [workloads |-> ws, services |-> svcs, result |-> "False"]

\* the variables the lifecycle methods leave alone
lifeOthers == <<selVars, execVars, depVars, runVars, waitVars>>

OpRecord(op, name, response, result, desired) ==
  [op |-> op, name |-> name, response |-> response,
   result |-> result, desired |-> desired,
   existed |-> name \in DOMAIN life_workloads,
   before |-> GetOr(life_workloads, name, 0),
   endpoint |-> 0]
Op(op, name, response, result, desired) ==
  last_op' = OpRecord(op, name, response, result, desired)

\* LocalDeployer._update_docker_compose.  A port mapping is the string
\* "<host port>:8000", here the pair <<host port, 8000>>; the host port of a
\* mapping is int(str(port_mapping).split(':')[0]).
base_port == 8000
container_port == 8000
host_port(port_mapping) == port_mapping[1]
existing_ports(services) ==
  {host_port(services[n]) : n \in DOMAIN services}
RECURSIVE next_port(_, _)
next_port(port, existing) ==
  IF port \in existing THEN next_port(port + 1, existing) ELSE port
update_docker_compose_base(services, name) ==
  Put(services, name, <<base_port, container_port>>)
update_docker_compose(services, name) ==
  Put(services, name,
      <<next_port(base_port, existing_ports(services)), container_port>>)

\* LocalDeployer._get_endpoint_url: the host port of "http://localhost:<port>",
\* read from the compose file; the fallback is port 8000
get_endpoint_url(services, name) ==
  IF name \in DOMAIN services THEN host_port(services[name]) ELSE base_port

\* a deploy whose instance name is already there.  The provider keeps one
\* object per name and refuses the second create: _create_k8s_deployment
\* answers the 409 with patch_namespaced_deployment of the new body,
\* _create_k8s_service with read_namespaced_service, _create_ecs_service
\* answers 'already exists' with describe_services (the service keeps its
\* desired count), _update_docker_compose assigns services[instance_name].
create_workload_once(provider, ws, name, replicas) ==
  IF name \in DOMAIN ws
  THEN [workloads |-> ws, result |-> "raised"]
  ELSE [workloads |-> Put(ws, name, replicas), result |-> "returned"]

create_workload(provider, ws, name, replicas) ==
  IF name \in DOMAIN ws
  THEN [workloads |-> IF provider = "aws" THEN ws
                      ELSE [ws EXCEPT ![name] = replicas],
        result |-> "returned"]
  ELSE [workloads |-> Put(ws, name, replicas), result |-> "returned"]

\* deploy_nim_instance on this object, as a whole: "cluster_error", it
\* raised in step 1; "workload_error", it raised after the Kubernetes
\* client was initialised (step 2); "answered", every call of the provider
\* was answered.  The local deployer: "cluster_error", docker is not
\* running or the pull failed (steps 2 and 3); "workload_error",
\* _start_container failed, after docker-compose.yml was written (step 5).
LifeDeploy(name, s2z, response) ==
  LET r == create_workload(life_provider, life_workloads, name,
                           Replicas(life_provider, s2z))
      returned == response = "answered" /\ r.result = "returned"
  IN  /\ UNCHANGED lifeOthers
      /\ k8s_client' = (k8s_client \/ (life_provider \in KubernetesProviders
                                         /\ response # "cluster_error"))
      /\ IF returned
         THEN /\ life_workloads' = r.workloads
              /\ life_services' =
                   IF life_provider \in KubernetesProviders
                   THEN life_services \cup {name} ELSE life_services
         ELSE UNCHANGED <<life_workloads, life_services>>
      /\ docker_compose' =
           IF life_provider = "local" /\ response # "cluster_error"
           THEN update_docker_compose(docker_compose, name)
           ELSE docker_compose
      /\ last_op' =
           [OpRecord("deploy", name, response,
                     IF returned THEN "returned" ELSE "raised",
                     IF returned THEN Replicas(life_provider, s2z) ELSE 0)
              EXCEPT !.endpoint =
                IF returned /\ life_provider = "local"
                THEN get_endpoint_url(docker_compose', name) ELSE 0]
      /\ UNCHANGED <<life_provider, life_deleted>>

StartDeployment(name, first, response) ==
  LET r == start_deployment(life_provider, k8s_client, life_workloads, name,
                            first, response)
  IN  /\ UNCHANGED lifeOthers
      /\ FirstListed(life_provider, life_workloads, name, first)
      /\ life_workloads' = r.workloads
      /\ Op("start", name, response, r.result, 1)
      /\ UNCHANGED <<life_provider, k8s_client, life_services, docker_compose,
                     life_deleted>>

StopDeployment(name, first, response) ==
  LET r == stop_deployment(life_provider, k8s_client, life_workloads, name,
                           first, response)
  IN  /\ UNCHANGED lifeOthers
      /\ FirstListed(life_provider, life_workloads, name, first)
      /\ life_workloads' = r.workloads
      /\ Op("stop", name, response, r.result, 0)
      /\ UNCHANGED <<life_provider, k8s_client, life_services, docker_compose,
                     life_deleted>>

GetDeploymentStatus(name, first, response, ready) ==
  LET r == get_deployment_status(life_provider, k8s_client, life_workloads,
                                 name, first, response, ready)
  IN  /\ UNCHANGED lifeOthers
      /\ FirstListed(life_provider, life_workloads, name, first)
      /\ ready <= GetOr(life_workloads, first, 0)
      /\ Op("status", name, response, r.status, r.desiredCount)
      /\ UNCHANGED <<life_provider, k8s_client, life_workloads, life_services,
                     docker_compose, life_deleted>>

\* only the AKS and GKE deployers have a delete_deployment
DeleteDeployment(name, response) ==
  LET r == delete_deployment(life_provider, k8s_client, life_workloads,
                             life_services, name, response)
  IN  /\ UNCHANGED lifeOthers
      /\ life_provider \in KubernetesProviders
      /\ life_workloads' = r.workloads
      /\ life_services' = r.services
      /\ life_deleted' = IF r.result = "True" THEN life_deleted \cup {name}
                                              ELSE life_deleted
      /\ Op("delete", name, response, r.result, 0)
      /\ UNCHANGED <<life_provider, k8s_client, docker_compose>>

\* the compose files that first deploys of the names leave, in any order:
\* the ports base_port, base_port + 1, ... one for each name
FirstDeploys(names) ==
  {[n \in names |-> <<f[n], container_port>>] :
     f \in {g \in [names -> base_port..(base_port + Cardinality(names) - 1)] :
              \A a, b \in names : a # b => g[a] # g[b]}}

\* a deployer object has been constructed; the account holds the instances
\* earlier objects deployed
LifeInit ==
  /\ life_provider \in DeployableProviders
  /\ k8s_client = FALSE
  /\ \E names \in SUBSET LifeNames : life_workloads \in [names -> {0, 1}]
  /\ life_services =
       IF life_provider \in KubernetesProviders THEN DOMAIN life_workloads
                                                 ELSE {}
  /\ docker_compose \in
       IF life_provider = "local" THEN FirstDeploys(DOMAIN life_workloads)
                                  ELSE {EmptyDict}
  /\ last_op = NoOp
  /\ life_deleted = {}

InitLife == LifeInit /\ SelInit /\ ExecIdle /\ DepIdle /\ RunIdle /\ WaitIdle

NextLife ==
  \/ \E name \in LifeNames, s2z \in BOOLEAN,
        response \in {"answered", "cluster_error", "workload_error"} :
       LifeDeploy(name, s2z, response)
  \/ \E name \in LifeNames, first \in LifeNames, response \in Responses :
       StartDeployment(name, first, response)
  \/ \E name \in LifeNames, first \in LifeNames, response \in Responses :
       StopDeployment(name, first, response)
  \/ \E name \in LifeNames, first \in LifeNames, ready \in {0, 1},
        response \in {"answered", "api_error", "connection_error"} :
       GetDeploymentStatus(name, first, response, ready)
  \/ \E name \in LifeNames,
        response \in {"answered", "service_error", "error"} :
       DeleteDeployment(name, response)

SpecLife == InitLife /\ [][NextLife]_vars

(***************************************************************************)
(* Two presses of Deploy.  deploy_selected starts a daemon thread for each *)
(* press (deployment_tab.py:376-383); the button stays enabled and no lock *)
(* guards the endpoint store, so the steps of the two runs of              *)
(* execute_deployments interleave.  A step is one call that can block:     *)
(* the deployer, load_endpoints (the file is read), save_endpoints (the    *)
(* file is written).                                                       *)
(***************************************************************************)
MaxRunTasks == 2

\* the record the deployer of task i of run r returns
RunRecord(r, i) == [id |-> 10 * r + i, node_type |-> nim_nodes[1],
                    provider |-> "local"]

\* the variables the two runs leave alone
runOthers == <<selVars, execVars, depVars, lifeVars, waitVars>>

\* the for loop of run r goes to its next task, or the run ends
RunNextTask(r) ==
  IF run_i[r] = run_tasks[r]
  THEN /\ run_pc' = [run_pc EXCEPT ![r] = "finished"]
       /\ UNCHANGED run_i
  ELSE /\ run_pc' = [run_pc EXCEPT ![r] = "deploy"]
       /\ run_i' = [run_i EXCEPT ![r] = @ + 1]

\* deploy_selected: the thread of run r is started with a batch of n tasks
PressDeploy(r, n) ==
  /\ UNCHANGED runOthers
  /\ run_pc[r] = "idle"
  /\ run_pc' = [run_pc EXCEPT ![r] = "deploy"]
  /\ run_tasks' = [run_tasks EXCEPT ![r] = n]
  /\ UNCHANGED <<run_i, run_results, run_errors, existing_endpoints,
                 endpoints_json, save_raised>>

\* deployment_actions.py:46-53: the deployer returned, results.append(result)
RunTaskDeployed(r) ==
  /\ UNCHANGED runOthers
  /\ run_pc[r] = "deploy"
  /\ run_results' = [run_results EXCEPT ![r] =
                       Append(@, RunRecord(r, run_i[r]))]
  /\ run_pc' = [run_pc EXCEPT ![r] = "load"]
  /\ UNCHANGED <<run_tasks, run_i, run_errors, existing_endpoints,
                 endpoints_json, save_raised>>

\* deployment_actions.py:63-66: the deployer raised, errors.append
RunTaskRaised(r) ==
  /\ UNCHANGED runOthers
  /\ run_pc[r] = "deploy"
  /\ run_errors' = [run_errors EXCEPT ![r] = @ + 1]
  /\ RunNextTask(r)
  /\ UNCHANGED <<run_tasks, run_results, existing_endpoints, endpoints_json,
                 save_raised>>

\* deployment_actions.py:55-57: existing_endpoints = load_endpoints()
RunLoad(r) ==
  /\ UNCHANGED runOthers
  /\ run_pc[r] = "load"
  /\ existing_endpoints' = [existing_endpoints EXCEPT ![r] =
                              load_endpoints(endpoints_json)]
  /\ run_pc' = [run_pc EXCEPT ![r] = "save"]
  /\ UNCHANGED <<run_tasks, run_i, run_results, run_errors, endpoints_json,
                 save_raised>>

\* deployment_actions.py:58-59: existing_endpoints.append(result);
\* save_endpoints(existing_endpoints).  A save that raises adds an error
\* entry (63-66).
RunSave(r, outcome) ==
  /\ UNCHANGED runOthers
  /\ run_pc[r] = "save"
  /\ endpoints_json' =
       save_endpoints(endpoints_json,
                      Append(existing_endpoints[r], RunRecord(r, run_i[r])),
                      outcome)
  /\ run_errors' = [run_errors EXCEPT ![r] =
                      IF outcome = "ok" THEN @ ELSE @ + 1]
  /\ save_raised' = (save_raised \/ outcome # "ok")
  /\ RunNextTask(r)
  /\ UNCHANGED <<run_tasks, run_results, existing_endpoints>>

RunInit ==
  /\ run_pc = [r \in Runs |-> "idle"]
  /\ run_tasks = [r \in Runs |-> 0]
  /\ run_i = [r \in Runs |-> 1]
  /\ run_results = [r \in Runs |-> <<>>]
  /\ run_errors = [r \in Runs |-> 0]
  /\ existing_endpoints = [r \in Runs |-> <<>>]
  /\ endpoints_json \in InitialStores
  /\ save_raised = FALSE

InitRuns ==
  RunInit /\ SelInit /\ ExecIdle /\ DepIdle /\ LifeIdle /\ WaitIdle

NextRuns ==
  \/ \E r \in Runs, n \in 1..MaxRunTasks : PressDeploy(r, n)
  \/ \E r \in Runs : RunTaskDeployed(r)
  \/ \E r \in Runs : RunTaskRaised(r)
  \/ \E r \in Runs : RunLoad(r)
  \/ \E r \in Runs, outcome \in SaveOutcomes : RunSave(r, outcome)

SpecRuns == InitRuns /\ [][NextRuns]_vars

(***************************************************************************)
(* GCPDeployer._wait_for_operation (deployment/gcp_deployer.py:308-326):   *)
(* a loop that polls the operation until it is DONE or the timeout has     *)
(* passed.  The whole body of the loop, the test of the status and the     *)
(* raise for a failed operation included, is inside "try ... except        *)
(* Exception", whose handler logs a warning and sleeps.                    *)
(***************************************************************************)
timeout == 1800
sleep == 10

\* the variables _wait_for_operation leaves alone
waitOthers == <<selVars, execVars, depVars, lifeVars, runVars>>

\* what one pass through the body of the while loop does, given what
\* get_operation gave: "returned", the function returns; "sleep", the loop
\* goes on after time.sleep(10).  The exception raised for an operation
\* that is DONE with an error is caught by the handler of the same try
\* statement, like an error of get_operation: warning, sleep, next pass.
poll(seen) ==
  CASE seen = "DONE"       -> "returned"
    [] seen = "DONE_error" -> "sleep"
    [] seen = "api_error"  -> "sleep"
    [] OTHER               -> "sleep"

\* what get_operation gives for the operation
Seen(op, response) ==
  IF response = "error" THEN "api_error"
  ELSE IF op.status # "DONE" THEN "RUNNING"
  ELSE IF op.error THEN "DONE_error" ELSE "DONE"

\* the operation ends at the provider, with or without error
OperationEnds(error) ==
  /\ UNCHANGED waitOthers
  /\ wait_pc = "waiting"
  /\ operation.status = "RUNNING"
  /\ operation' = [status |-> "DONE", error |-> error]
  /\ UNCHANGED <<wait_pc, elapsed, polls, observed>>

\* one pass through the loop: time.time() - start_time < timeout
PollOperation(response) ==
  LET seen == Seen(operation, response)
      next == poll(seen)
  IN  /\ UNCHANGED waitOthers
      /\ wait_pc = "waiting"
      /\ elapsed < timeout
      /\ polls' = polls + 1
      /\ observed' = seen
      /\ wait_pc' = IF next = "sleep" THEN "waiting" ELSE next
      /\ elapsed' = IF next = "sleep" THEN elapsed + sleep ELSE elapsed
      /\ UNCHANGED operation

\* the loop ends without a return: raise TimeoutError
WaitTimeout ==
  /\ UNCHANGED waitOthers
  /\ wait_pc = "waiting"
  /\ elapsed >= timeout
  /\ wait_pc' = "timeout"
  /\ UNCHANGED <<elapsed, operation, polls, observed>>

\* _wait_for_operation has been called for an operation that create_cluster
\* or create_node_pool started
WaitInit ==
  /\ wait_pc = "waiting"
  /\ elapsed = 0
  /\ operation = Running
  /\ polls = 0
  /\ observed = "none"

InitWait ==
  WaitInit /\ SelInit /\ ExecIdle /\ DepIdle /\ LifeIdle /\ RunIdle

NextWait ==
  \/ \E error \in BOOLEAN : OperationEnds(error)
  \/ \E response \in Responses : PollOperation(response)
  \/ WaitTimeout

SpecWait == InitWait /\ [][NextWait]_vars

(***************************************************************************)
(* Properties of execute_deployments                                       *)
(***************************************************************************)
\* the task indexes whose deployer did this
TasksWith(outcome) ==
  {i \in 1..Len(deployer_outcome) : deployer_outcome[i] = outcome}
InResults(i) ==
  \E k \in 1..Len(results) : results[k] = DeploymentInfo(i, exec_tasks[i])

\* C4 (bulkhead isolation): when the loop of execute_deployments has ended
\* on a batch in which exactly one task's deployer raised, every task of
\* the batch has been attempted, and every task whose deployer returned a
\* record is in the success list, wherever the raising task stands.
BulkheadIsolation ==
  (LoopDone /\ Cardinality(TasksWith("raised")) = 1)
    => /\ Len(deployer_outcome) = Len(exec_tasks)
       /\ \A i \in 1..Len(exec_tasks) :
            deployer_outcome[i] = "returned" => InResults(i)

\* a batch of three whose first task raised and whose other two succeeded
BulkheadIsolationWitness ==
  /\ LoopDone
  /\ deployer_outcome = <<"raised", "returned", "returned">>
  /\ Len(results) = 2
  /\ InResults(2) /\ InResults(3)

\* the tasks the loop has gone through whose provider name is none of the
\* names execute_deployments knows
UnknownProviderTasks ==
  {i \in 1..(exec_i - 1) : exec_tasks[i][2] \notin {"aws", "azure", "gcp",
                                                     "local", "nvidia-hosted"}}
HasError(i) == \E k \in 1..Len(errors) : errors[k].task = i

\* C18 (unknown provider): a task with an unrecognised provider name gets an
\* error entry of its own and no deployer is invoked for it (so no record of
\* it is in the success list); the batch is not aborted: when the loop has
\* ended every task has been gone through and every task whose deployer
\* returned a record is in the success list.
UnknownProviderIsolated ==
  /\ \A i \in UnknownProviderTasks :
       /\ deployer_outcome[i] = "none"
       /\ HasError(i)
       /\ ~InResults(i)
  /\ (LoopDone /\ UnknownProviderTasks # {})
       => /\ Len(deployer_outcome) = Len(exec_tasks)
          /\ \A i \in TasksWith("returned") : InResults(i)

\* an unknown provider first, then a local and an aws task that deployed
UnknownProviderIsolatedWitness ==
  /\ LoopDone
  /\ Len(exec_tasks) = 3
  /\ exec_tasks[1][2] = "oracle"
  /\ exec_tasks[2][2] = "local"
  /\ exec_tasks[3][2] = "aws"
  /\ deployer_outcome = <<"none", "returned", "returned">>
  /\ HasError(1)
  /\ InResults(2) /\ InResults(3)

\* the cloud tasks the loop has gone through for whose provider the
\* credential store gave nothing
NoCredentialsTasks ==
  {i \in 1..(exec_i - 1) : /\ exec_tasks[i][2] \in CloudProviders
                           /\ exec_tasks[i][2] \notin credentials}

\* C19 (missing credentials are fatal to that task only): a cloud task for
\* whose provider there are no credentials ends as an error entry, without a
\* deployer having been constructed or called, and with no record in the
\* success list; when the loop has ended every task has been gone through,
\* every local task and every cloud task with credentials reached its
\* deployer, and those whose deployer returned are in the success list.
MissingCredentialsIsolated ==
  /\ \A i \in NoCredentialsTasks :
       /\ deployer_outcome[i] = "no_credentials"
       /\ HasError(i)
       /\ ~InResults(i)
  /\ (LoopDone /\ NoCredentialsTasks # {})
       => /\ Len(deployer_outcome) = Len(exec_tasks)
          /\ \A i \in 1..Len(exec_tasks) :
               /\ (exec_tasks[i][2] = "local" \/ exec_tasks[i][2] \in credentials)
                    => deployer_outcome[i] \in {"returned", "raised"}
               /\ deployer_outcome[i] = "returned" => InResults(i)

\* an aws task without credentials first, then a local task and a gcp task
\* with credentials that deployed
MissingCredentialsIsolatedWitness ==
  /\ LoopDone
  /\ credentials = {"gcp"}
  /\ Len(exec_tasks) = 3
  /\ exec_tasks[1][2] = "aws"
  /\ exec_tasks[2][2] = "local"
  /\ exec_tasks[3][2] = "gcp"
  /\ deployer_outcome = <<"no_credentials", "returned", "returned">>
  /\ HasError(1)
  /\ InResults(2) /\ InResults(3)

\* the records of this run that the endpoint store holds
RunRecords(file) ==
  SelectSeq(load_endpoints(file), LAMBDA r : r.id # 0)

\* C5 (every success persisted exactly once): when a run has completed, the
\* records the run added to the endpoint store are exactly the records of
\* the success list, each once.
PersistedExactlyOnce ==
  LoopDone => RunRecords(endpoints_file) = results

\* C22 (a persistence failure is logged, not raised): a task whose deployer
\* returned a record is in the success list and has no error entry, also
\* when the write of the endpoint store failed for it.
PersistenceFailureLogged ==
  \A i \in TasksWith("returned") : InResults(i) /\ ~HasError(i)

\* the records a store holds, of whatever shape its content is
StoreRecords(file) == Range(file.items)

\* C23 (the endpoint store is append-only): throughout and after a run of
\* execute_deployments every record the store held before the run is still
\* in the store.
StoreAppendOnly ==
  StoreRecords(store_before) \subseteq StoreRecords(endpoints_file)

\* C24 (refresh once per completed run): when update_ui has run, the
\* refresh callback has been called exactly once, whatever the outcome of
\* the batch; before that it has not been called.
RefreshOncePerRun ==
  refresh_calls = IF ui_updated THEN 1 ELSE 0

\* the task whose deployer is at work, and the tasks not yet begun
InFlight == IF exec_i <= Len(exec_tasks) THEN {exec_i} ELSE {}
Waiting == {i \in 1..Len(exec_tasks) : i > exec_i}

\* C25 (tasks of a batch run concurrently): a task waits for its start only
\* while several tasks are in flight; it never waits for a single task that
\* is still at work.
TasksRunConcurrently ==
  Waiting # {} => Cardinality(InFlight) >= 2

\* C35: when execute_deployments has gone through its batch, every task
\* has produced exactly one outcome entry: the success records and the
\* error entries together are as many as the tasks.
OneOutcomePerTask ==
  LoopDone => Len(results) + Len(errors) = Len(exec_tasks)

\* C36: the endpoint store holds at most one record for a (provider,
\* instance_name): no two records of the local provider in the store have
\* the same instance name.
OneRecordPerInstance ==
  LET es == load_endpoints(endpoints_file)
  IN  \A i, j \in 1..Len(es) :
        (/\ i # j
         /\ es[i].provider = "local"
         /\ es[j].provider = "local")
        => LocalInstanceName(es[i].node_type) #
             LocalInstanceName(es[j].node_type)

(***************************************************************************)
(* Properties of the provider deployers                                    *)
(***************************************************************************)
\* C6 (scale-to-zero invariant): a call of deploy_nim_instance with
\* scale_to_zero=True to a provider whose deployer takes the argument
\* leaves the workload with replica/desired count 0 and returns a record
\* whose status is not "running".
ScaleToZeroInvariant ==
  \A d \in Deployments :
    (scale_to_zero /\ dep_provider # "local" /\ pc[d] = "returned")
      => /\ workloads[instance_name[d]] = 0
         /\ deployment_info[d].status # "running"

\* C7 (idempotent infrastructure): a get-or-create of the cluster that
\* begins after another one has completed, and whose lookup is answered,
\* finds the cluster and issues no create call; one cluster of the name
\* exists, and it is in use.
IdempotentGetOrCreate ==
  \A d \in Deployments :
    (after_other[d] /\ lookup_result[d] # "error")
      => /\ lookup_result[d] = "found"
         /\ create_calls[d] = 0
         /\ Len(cloud_clusters) = 1
         /\ cloud_clusters[1].status = "ACTIVE"

\* the first call created the cluster, the second call, begun afterwards,
\* found it and has returned without a create call
IdempotentGetOrCreateWitness ==
  \E d \in Deployments :
    /\ after_other[d]
    /\ lookup_result[d] = "found"
    /\ create_calls[d] = 0
    /\ pc[d] = "returned"
    /\ lookup_result[Other(d)] = "not_found"
    /\ create_calls[Other(d)] = 1

\* C8 (concurrent get-or-create): when both calls have observed the cluster
\* as not found and both have issued their create call, and the provider
\* had no error of its own, one cluster exists and neither call has failed
\* on the create.
ConcurrentGetOrCreate ==
  (/\ \A d \in Deployments : lookup_result[d] = "not_found"
   /\ \A d \in Deployments : create_calls[d] = 1
   /\ \A d \in Deployments : failure[d] # "InfrastructureError")
    => /\ Len(cloud_clusters) = 1
       /\ \A d \in Deployments : failure[d] = None

\* the attempts _get_endpoint_url may make
MaxAttempts(provider) ==
  CASE provider = "aws" -> 2
    [] provider \in KubernetesProviders -> max_retries
    [] OTHER -> 1

\* endpoint resolution of call d has used up its attempts without address
TimedOut(d) ==
  /\ attempts[d] = MaxAttempts(dep_provider)
  /\ resolution[d] \notin {None, "resolved"}

\* C9 (endpoint-timeout degradation): when a cloud deployer has created the
\* workload and endpoint resolution has used up its attempts, the call has
\* returned a record with status "pending" and the placeholder endpoint, it
\* has not failed, and the workload is still there.
EndpointTimeoutDegradation ==
  \A d \in Deployments :
    (dep_provider # "local" /\ TimedOut(d) /\ resolution[d] = "placeholder")
      => /\ pc[d] = "returned"
         /\ failure[d] = None
         /\ instance_name[d] \in DOMAIN workloads
         /\ deployment_info[d].endpoint = "placeholder"
         /\ deployment_info[d].status = "pending"

\* C10 (endpoint resolution terminates): _get_endpoint_url never makes more
\* than its provider's number of attempts (30 Azure/GCP, 2 AWS, 1 local),
\* failed attempts included, and when it has ended without an address it
\* has ended with the timeout (placeholder) outcome.
EndpointResolutionBounded ==
  \A d \in Deployments :
    /\ attempts[d] <= MaxAttempts(dep_provider)
    /\ (attempts[d] > 0 /\ pc[d] # "resolve" /\ resolution[d] # "resolved")
         => resolution[d] = "placeholder"

\* call d has failed on a provider error of its infrastructure steps
InfrastructureFailed(d) == failure[d] = "InfrastructureError"

InfrastructureComplete ==
  /\ Len(cloud_clusters) = 1
  /\ cloud_clusters[1].status = "ACTIVE"
  /\ dep_provider = "aws" => auto_scaling_group
  /\ dep_provider \in KubernetesProviders => cloud_clusters[1].gpu_pool

\* C21 (reconciliation is forward-progressing): a call whose cluster lookup
\* comes, and is answered, after the other call created the cluster and
\* failed before the GPU capacity was there, and which has got past its
\* infrastructure steps, has found the cluster and issued no create-cluster
\* call, and the infrastructure is complete.
ForwardProgress ==
  \A d \in Deployments :
    (/\ after_partial[d]
     /\ lookup_result[d] # "error"
     /\ pc[d] \in {"workload", "resolve", "returned"})
      => /\ lookup_result[d] = "found"
         /\ create_calls[d] = 0
         /\ InfrastructureComplete

\* the place of a step in deploy_nim_instance
StepRank(step) ==
  CASE step = "cluster" -> 1
    [] step = "capacity" -> 2
    [] step = "workload" -> 3
    [] step = "resolve" -> 4

\* C26 (strict step order within a deployment): the steps a call has
\* completed are in the order cluster, GPU capacity, workload, endpoint
\* resolution; the workload is created only when the infrastructure steps of
\* the provider have completed, endpoint resolution makes an attempt only
\* when the workload has been created, and a record is returned only when
\* all of them have completed.
StepsInOrder ==
  \A d \in Deployments :
    LET done == steps_done[d]
    IN  /\ \A i, j \in DOMAIN done :
             i < j => StepRank(done[i]) <= StepRank(done[j])
        /\ ("workload" \in Range(done) /\ dep_provider # "local")
             => /\ "cluster" \in Range(done)
                /\ dep_provider = "aws" => "capacity" \in Range(done)
                /\ dep_provider \in KubernetesProviders
                     => cloud_clusters[1].gpu_pool
        /\ pc[d] = "resolve" => "workload" \in Range(done)
        /\ attempts[d] > 0 => "workload" \in Range(done)
        /\ pc[d] = "returned"
             => /\ done[Len(done)] = "resolve"
                /\ "workload" \in Range(done)
                /\ dep_provider # "local" => "cluster" \in Range(done)

\* an AWS call, or a GKE call that created the cluster, has gone through all
\* steps and returned
StepsInOrderWitness ==
  \E d \in Deployments :
    /\ pc[d] = "returned"
    /\ \/ dep_provider = "aws"
       \/ dep_provider = "gcp" /\ lookup_result[d] = "not_found"
    /\ steps_done[d] = <<"cluster", "capacity", "workload", "resolve">>

\* the last lifecycle call was this method, on a name that was there, and
\* the provider answered it
AnsweredOn(op) ==
  /\ last_op.op = op
  /\ last_op.response = "answered"
  /\ last_op.existed

\* C27 (start): a start_deployment on an instance that is there returns
\* True and leaves its replica count at 1: it moves the count from 0 to 1
\* when the instance was created stopped or was stopped, and it changes
\* nothing when the instance was running.
StartIdempotent ==
  AnsweredOn("start")
    => /\ last_op.result = "True"
       /\ life_workloads[last_op.name] = 1

\* C28 (stop): a stop_deployment on an instance that is there returns True
\* and leaves its replica count at 0, and a status query for an instance
\* whose replica count is 0 reports desired count 0.
StopScalesToZero ==
  /\ AnsweredOn("stop")
       => /\ last_op.result = "True"
          /\ life_workloads[last_op.name] = 0
  /\ (AnsweredOn("status") /\ last_op.before = 0)
       => /\ last_op.result # "raised"
          /\ last_op.desired = 0

\* C29 (status of an unknown name): a get_deployment_status for a name that
\* no instance has, answered by the provider, returns status "unknown" and
\* raises nothing, whatever the deployer object has done before.
UnknownNameStatus ==
  (/\ last_op.op = "status"
   /\ last_op.response = "answered"
   /\ ~last_op.existed)
    => last_op.result = "unknown"

\* C30 (delete is idempotent): a delete_deployment answered by the provider
\* returns True and leaves the name without deployment and service, also
\* when an earlier delete has removed the instance already.
DeleteIdempotent ==
  (/\ last_op.op = "delete"
   /\ last_op.response = "answered"
   /\ (last_op.existed \/ last_op.name \in life_deleted)
   /\ k8s_client)
    => /\ last_op.result = "True"
       /\ last_op.name \notin DOMAIN life_workloads
       /\ last_op.name \notin life_services


SmallestFreePort(services) ==
  CHOOSE p \in base_port..(base_port + Cardinality(DOMAIN services)) :
    /\ p \notin existing_ports(services)
    /\ \A q \in base_port..(p - 1) : q \in existing_ports(services)
DistinctHostPorts(services) ==
  \A a, b \in DOMAIN services :
    a # b => host_port(services[a]) # host_port(services[b])
Occurrences(seq, x) == Cardinality({i \in 1..Len(seq) : seq[i] = x})
OverlappingRunsKeepRecords ==
  (/\ \A r \in Runs : run_pc[r] = "finished"
   /\ ~save_raised)
  => \A r \in Runs : \A i \in 1..Len(run_results[r]) :
       Occurrences(load_endpoints(endpoints_json), run_results[r][i]) = 1

\* C37: start_deployment(name) and stop_deployment(name) change the replica
\* count of the instance called name and of no other instance, names that
\* contain name included.
StartStopOnlyNamed ==
  [][last_op'.op \in {"start", "stop"}
     => \A n \in DOMAIN life_workloads :
          n # last_op'.name => life_workloads'[n] = life_workloads[n]]_vars

\* C39: _wait_for_operation stops polling at the poll that sees the
\* operation DONE: it returns when the operation has no error and raises on
\* that poll when it has one; the operation is not polled again.
StopsPollingWhenDone ==
  [][(polls' = polls + 1 /\ observed' \in {"DONE", "DONE_error"})
     => wait_pc' = (IF observed' = "DONE" THEN "returned" ELSE "raised")]_vars
====
